---- MODULE Spec2Model ----
(***************************************************************************)
(* The tool-call orchestration loop of the desktop assistant               *)
(* (src/src/main/index.ts): handleLlmQuery, the confirmation gate          *)
(* runAppleScriptNeedsConfirmation and the confirmed-execution entry point *)
(* executeConfirmedAppleScript.                                            *)
(*                                                                         *)
(* JavaScript values are tagged records [t, v] so that truthiness and      *)
(* typeof are computed as the language computes them.                      *)
(*                                                                         *)
(* The Conversation (messages) keeps, for every message, its role, its     *)
(* text content, the ids of its tool calls and the id a tool message       *)
(* answers.  The name and arguments of a tool call are carried by          *)
(* toolCalls, the batch being dispatched (the same array in the source);   *)
(* the exact text of a tool result is carried by toolResultMessages.       *)
(*                                                                         *)
(* Spec is the main process: the loop and its entry points, called in any  *)
(* order.  AdapterSpec is the renderer (the App component of               *)
(* src/unnamed/part_000 behind the bridge of src/src/main/preload.ts): its *)
(* state is the record app, its handlers are operators on that record, and *)
(* an invocation of the loop is seen from outside, as a promise that       *)
(* settles with one of the outcomes the loop returns.                      *)
(***************************************************************************)
EXTENDS Integers, Sequences, FiniteSets, TLC

\* --------------------------------------------------- constants and bounds
\* const maxTurns = 5
maxTurns == 5

\* The oracle answers with at most MaxBatch tool calls at a time and at most
\* MaxCalls in one invocation; the confirmed-execution entry point is called at
\* most MaxExecCalls times after a query.
MaxBatch == 2
MaxCalls == 5
MaxExecCalls == 1

\* ------------------------------------------------------------ JS values
Str(s) == [t |-> "string", v |-> s]
Num(s) == [t |-> "number", v |-> s]
Null == [t |-> "null", v |-> ""]
Undefined == [t |-> "undefined", v |-> ""]

Truthy(x) ==
    CASE x.t = "string" -> x.v # ""
      [] x.t = "number" -> x.v # "0"
      [] x.t = "object" -> TRUE
      [] OTHER -> FALSE

TypeOf(x) == IF x.t = "null" THEN "object" ELSE x.t

\* ------------------------------------------------------------ input sets
Queries == {"list my applications", "open a new tab in Chrome"}
Scripts == {"S1", "S2"}
Contents == {Null, Str(""), Str("some text")}
ToolTurnContents == {Null, Str("some text")}

ArgsFile == "{\"filePath\":\"/f\"}"
ArgsNull == "null"
ArgsEmptyObject == "{}"
ArgsEmptyScript == "{\"scriptContent\":\"\"}"
ArgsScript(s) == "{\"scriptContent\":\"" \o s \o "\"}"
ArgsNumberScript == "{\"scriptContent\":1}"
ArgsNotJson == "{\"filePath\":"

CallShapes ==
    { <<"readFileContent", ArgsFile>>,
      <<"openPath", ArgsNull>>,
      <<"noSuchTool", ArgsEmptyObject>>,
      <<"toString", ArgsEmptyObject>>,
      <<"executeAppleScript", ArgsEmptyScript>>,
      <<"executeAppleScript", ArgsNumberScript>>,
      <<"listApplications", ArgsNotJson>> }
    \cup { <<"executeAppleScript", ArgsScript(s)>> : s \in Scripts }

\* ------------------------------------------------------------- messages
SystemPrompt == Str("You are a powerful assistant integrated into a desktop launcher on macOS.")

Message(role, content, calls, answers) ==
    [role |-> role, content |-> content, tool_calls |-> calls, tool_call_id |-> answers]

InitialMessages(userQuery) ==
    << Message("system", SystemPrompt, <<>>, 0),
       Message("user", Str(userQuery), <<>>, 0) >>

ResponseMessage(content, calls) ==
    Message("assistant", content, [i \in 1..Len(calls) |-> calls[i].id], 0)

\* A tool message built with the id of the call before the one it answers.
ToolMessage_StaleId(id, text) ==
    [tool_call_id |-> id - 1, role |-> "tool", content |-> text]

ToolMessage(id, text) ==
    [tool_call_id |-> id, role |-> "tool", content |-> text]

\* ------------------------------------------------------------- outcomes
NoOutcome == [type |-> "none", content |-> Undefined, scriptContent |-> Undefined, error |-> ""]
TextResponse(content) ==
    [type |-> "text_response", content |-> content, scriptContent |-> Undefined, error |-> ""]
ConfirmationRequired(script) ==
    [type |-> "applescript_confirmation_required", content |-> Undefined,
     scriptContent |-> script, error |-> ""]
ErrorOutcome(msg) ==
    [type |-> "error", content |-> Undefined, scriptContent |-> Undefined, error |-> msg]

\* ------------------------------------------------- arguments and providers
ParsedArgs(isNull, scriptContent, filePath) ==
    [isNull |-> isNull, scriptContent |-> scriptContent, filePath |-> filePath]

\* JSON.parse(toolCall.function.arguments): throws on text that is not JSON.
JSON_parse(arguments) ==
    CASE arguments = ArgsNotJson ->
           [threw |-> TRUE, value |-> ParsedArgs(TRUE, Undefined, Undefined)]
      [] arguments = ArgsNull ->
           [threw |-> FALSE, value |-> ParsedArgs(TRUE, Undefined, Undefined)]
      [] arguments = ArgsEmptyObject ->
           [threw |-> FALSE, value |-> ParsedArgs(FALSE, Undefined, Undefined)]
      [] arguments = ArgsFile ->
           [threw |-> FALSE, value |-> ParsedArgs(FALSE, Undefined, Str("/f"))]
      [] arguments = ArgsEmptyScript ->
           [threw |-> FALSE, value |-> ParsedArgs(FALSE, Str(""), Undefined)]
      [] arguments = ArgsNumberScript ->
           [threw |-> FALSE, value |-> ParsedArgs(FALSE, Num("1"), Undefined)]
      [] OTHER ->
           [threw |-> FALSE,
            value |-> ParsedArgs(FALSE,
                                 Str(CHOOSE s \in Scripts : arguments = ArgsScript(s)),
                                 Undefined)]

\* What a capability function hands back to the loop: its return value
\* (needsConfirmation / scriptContent / error fields and the JSON text of the
\* whole value), whether it threw, and the scripts it gave to osascript.
FunctionResponse(needsConfirmation, scriptContent, error, json) ==
    [needsConfirmation |-> needsConfirmation, scriptContent |-> scriptContent,
     error |-> error, json |-> json]

\* A host operation a provider performed, and how the host answered it.
HostOp(op, path, result) == [op |-> op, path |-> path, result |-> result]

\* `value` is the structured value the function returned (for the providers
\* whose value the loop only serializes), `host` the host operations it made.
NoValue == [success |-> Undefined, content |-> <<>>, error |-> Undefined, items |-> <<>>]

Returned(response) ==
    [threw |-> FALSE, message |-> "", response |-> response, ran |-> <<>>,
     host |-> <<>>, value |-> NoValue]
Threw(message) ==
    [threw |-> TRUE, message |-> message,
     response |-> FunctionResponse(FALSE, Undefined, Undefined, ""), ran |-> <<>>,
     host |-> <<>>, value |-> NoValue]

PlainPayload(json) == FunctionResponse(FALSE, Undefined, Undefined, json)
ErrorPayload(error, json) == FunctionResponse(FALSE, Undefined, Str(error), json)

\* ---- listApplications
\* An entry of /Applications: a base name and an extension.
DirEntry(base, ext) == [base |-> base, ext |-> ext]
Directories == { <<>>, <<DirEntry("Safari", ".app"), DirEntry("notes", ".txt")>> }

\* The host as listApplications meets it.  exec: the promise of
\* execAsync('ls /Applications | grep .app | sed "s/.app//g"') resolves or
\* rejects; it rejects when the shell cannot be run or the pipeline's exit
\* status, which is that of its last command sed, is not 0.  ls: whether the
\* first command of the pipeline could list the directory.  readdir: whether
\* fsPromises.readdir('/Applications') resolves.
Enumeration(exec, ls, readdir, directory) ==
    [exec |-> exec, ls |-> ls, readdir |-> readdir, directory |-> directory]
Enumerations ==
    { Enumeration(e, l, r, d) :
        e \in {"resolves", "rejects"}, l \in {"ok", "fails"}, r \in {"resolves", "rejects"},
        d \in Directories }

AppInfo(base) == [name |-> base, path |-> "/Applications/" \o base \o ".app"]

\* The entries with extension .app, as AppInfo records (grep .app | sed on the
\* primary path, filter(endsWith('.app')) and path.basename on the secondary;
\* the two agree on entries whose base name holds no further match of .app).
RECURSIVE AppInfos(_)
AppInfos(directory) ==
    IF directory = <<>> THEN <<>>
    ELSE (IF directory[1].ext = ".app" THEN <<AppInfo(directory[1].base)>> ELSE <<>>)
         \o AppInfos(Tail(directory))

ListJson(items) ==
    IF items = <<>> THEN "[]"
    ELSE "[{\"name\":\"Safari\",\"path\":\"/Applications/Safari.app\"}]"

ListValue(items, ops) ==
    [Returned(PlainPayload(ListJson(items))) EXCEPT
        !.host = ops, !.value = [NoValue EXCEPT !.items = items]]

listApplications(e) ==
    LET exec == HostOp("exec", "ls /Applications | grep .app | sed \"s/.app//g\"", e.exec)
        readdir == HostOp("readdir", "/Applications", e.readdir)
    IN  IF e.exec = "resolves"
        THEN \* stdout holds what ls printed: nothing when ls failed
             ListValue(AppInfos(IF e.ls = "ok" THEN e.directory ELSE <<>>), <<exec>>)
        ELSE IF e.readdir = "resolves"
        THEN ListValue(AppInfos(e.directory), <<exec, readdir>>)
        ELSE ListValue(<<>>, <<exec, readdir>>)

\* ---- openPath
\* shell.openPath(filePath) returns a promise of a string: it resolves with
\* '' when the path was opened and with the error message when it could not be
\* opened; it rejects when the call itself fails (an argument that is not a
\* string).
Opening(settles, message) == [settles |-> settles, message |-> message]
Openings ==
    { Opening("resolves", ""), Opening("resolves", "Failed to open path"),
      Opening("rejects", "Error processing argument at index 0, conversion failure from undefined") }

OpenValue(success, error, json, ops) ==
    [Returned(FunctionResponse(FALSE, Undefined, error, json)) EXCEPT
        !.host = ops, !.value = [NoValue EXCEPT !.success = success, !.error = error]]

openPath(filePath, o) ==
    LET ops == <<HostOp("shell.openPath", filePath, o.settles)>>
    IN  IF o.settles = "resolves"
        THEN OpenValue(TRUE, Undefined, "{\"success\":true}", ops)
        ELSE OpenValue(FALSE, Str(o.message),
                       "{\"success\":false,\"error\":\"" \o o.message \o "\"}", ops)

searchFiles(query, ending) ==
    Returned(PlainPayload(IF ending = "success" THEN "[{\"name\":\"f\"}]" ELSE "[]"))

\* ---- readFileContent
\* const maxContentLength = 5000
maxContentLength == 5000

\* Files are as long as maxContentLength + MaxOver characters.
MaxOver == 2

\* '... [truncated]'
TruncationMarker ==
    <<".", ".", ".", " ", "[", "t", "r", "u", "n", "c", "a", "t", "e", "d", "]">>

\* A text is the sequence of its characters.
Alphabet == <<"a", "b", "c", "d", "e", "f", "g">>
FileText(n, shift) == [i \in 1..n |-> Alphabet[((i + shift) % 7) + 1]]

FileLengths ==
    {0, 1, maxContentLength - 1, maxContentLength}
    \cup {maxContentLength + k : k \in 1..MaxOver}

\* What the path names on the host: a regular file with its content, a
\* directory, nothing (stat rejects with ENOENT), a file that may not be read
\* (readFile rejects with EACCES) or that cannot be read (another error).
Entry(kind, content) == [kind |-> kind, content |-> content]
Entries ==
    { Entry(k, <<>>) : k \in {"directory", "ENOENT", "EACCES", "EIO"} }
    \cup { Entry("file", FileText(n, shift)) : n \in FileLengths, shift \in 0..1 }

FileError(error, ops) ==
    [Returned(ErrorPayload(error, "{\"success\":false,\"error\":\"" \o error \o "\"}")) EXCEPT
        !.host = ops,
        !.value = [NoValue EXCEPT !.success = FALSE, !.error = Str(error)]]

\* The JSON text of the content is not spelled out.
FileContent(content, ops) ==
    [Returned(PlainPayload("{\"success\":true,\"content\":\"...\"}")) EXCEPT
        !.host = ops,
        !.value = [NoValue EXCEPT !.success = TRUE, !.content = content]]

\* The truncation cutting a content that is exactly maxContentLength long.
Truncated_AtLimit(content) ==
    IF Len(content) >= maxContentLength
    THEN SubSeq(content, 1, maxContentLength) \o TruncationMarker
    ELSE content

\* if (content.length > maxContentLength) content.substring(0, maxContentLength) + '... [truncated]'
Truncated(content) ==
    IF Len(content) > maxContentLength
    THEN SubSeq(content, 1, maxContentLength) \o TruncationMarker
    ELSE content

\* readFileContent reading the path without asking whether it is a file: a
\* directory makes readFile reject with EISDIR.
readFileContent_NoFileCheck(args, entry) ==
    IF args.isNull THEN Threw("Cannot destructure property 'filePath' of null")
    ELSE LET filePath == args.filePath.v
             stat == HostOp("stat", filePath, entry.kind)
             readFile == HostOp("readFile", filePath, entry.kind)
         IN  CASE entry.kind = "ENOENT" ->
                    FileError("File not found at path: " \o filePath, <<stat>>)
               [] entry.kind = "directory" ->
                    FileError("Failed to read file: EISDIR: illegal operation on a directory, read",
                              <<stat, readFile>>)
               [] entry.kind = "EACCES" ->
                    FileError("Permission denied to read file: " \o filePath, <<stat, readFile>>)
               [] entry.kind = "EIO" ->
                    FileError("Failed to read file: EIO: i/o error, read", <<stat, readFile>>)
               [] OTHER -> FileContent(Truncated(entry.content), <<stat, readFile>>)

readFileContent(args, entry) ==
    IF args.isNull THEN Threw("Cannot destructure property 'filePath' of null")
    ELSE LET filePath == args.filePath.v
             stat == HostOp("stat", filePath, entry.kind)
             readFile == HostOp("readFile", filePath, entry.kind)
         IN  CASE entry.kind = "ENOENT" ->
                    FileError("File not found at path: " \o filePath, <<stat>>)
               [] entry.kind = "directory" ->
                    FileError("Path is not a file: " \o filePath, <<stat>>)
               [] entry.kind = "EACCES" ->
                    FileError("Permission denied to read file: " \o filePath, <<stat, readFile>>)
               [] entry.kind = "EIO" ->
                    FileError("Failed to read file: EIO: i/o error, read", <<stat, readFile>>)
               [] OTHER -> FileContent(Truncated(entry.content), <<stat, readFile>>)

\* The superseded variant of the gate: it runs the script itself.
runAppleScriptNeedsConfirmation_AutoExecute(args) ==
    IF args.isNull THEN Threw("Cannot destructure property 'scriptContent' of null")
    ELSE IF ~Truthy(args.scriptContent)
         THEN Returned(FunctionResponse(FALSE, Undefined,
                                        Str("Empty script content provided."),
                                        "{\"needsConfirmation\":false}"))
         ELSE [threw |-> FALSE, message |-> "",
               response |-> FunctionResponse(TRUE, args.scriptContent, Undefined,
                                             "{\"needsConfirmation\":true}"),
               ran |-> <<args.scriptContent>>, host |-> <<>>, value |-> NoValue]

\* The gate's phase 1 without its check for an empty script.
runAppleScriptNeedsConfirmation_NoValidation(args) ==
    IF args.isNull THEN Threw("Cannot destructure property 'scriptContent' of null")
    ELSE Returned(FunctionResponse(TRUE, args.scriptContent, Undefined,
                                   "{\"needsConfirmation\":true}"))

\* The gate's phase 1: validates and packages, never runs the script.
runAppleScriptNeedsConfirmation(args) ==
    IF args.isNull THEN Threw("Cannot destructure property 'scriptContent' of null")
    ELSE IF ~Truthy(args.scriptContent)
         THEN Returned(FunctionResponse(FALSE, Undefined,
                                        Str("Empty script content provided."),
                                        "{\"needsConfirmation\":false}"))
         ELSE Returned(FunctionResponse(TRUE, args.scriptContent, Undefined,
                                        "{\"needsConfirmation\":true}"))

\* The keys of the object literal availableFunctions.
FunctionNames ==
    {"listApplications", "openPath", "searchFiles", "executeAppleScript", "readFileContent"}

\* availableFunctions is a plain object: availableFunctions[functionName] also
\* finds what the object inherits from Object.prototype; of those names the
\* model carries toString.
ObjectPrototypeNames == {"toString"}

\* Object.prototype.toString called as a plain function: it returns a string.
Object_prototype_toString == Returned(PlainPayload("\"[object Undefined]\""))

\* const functionToCall = availableFunctions[functionName]: is it truthy?
FunctionToCall(functionName) == functionName \in FunctionNames \cup ObjectPrototypeNames

\* The host as a tool call of the loop meets it: every host operation works
\* (the path is a short regular file), or none does (the path is a directory).
ProviderEndings == {"success", "failure"}

HostOf(ending) ==
    IF ending = "success"
    THEN [enumeration |-> Enumeration("resolves", "ok", "resolves",
                                      <<DirEntry("Safari", ".app"), DirEntry("notes", ".txt")>>),
          open |-> Opening("resolves", ""),
          entry |-> Entry("file", <<"h", "i">>)]
    ELSE [enumeration |-> Enumeration("rejects", "fails", "rejects", <<>>),
          open |-> Opening("resolves", "Failed to open path"),
          entry |-> Entry("directory", <<>>)]

\* availableFunctions[functionName](functionArgs)
availableFunctions(functionName, args, ending) ==
    CASE functionName = "listApplications" -> listApplications(HostOf(ending).enumeration)
      [] functionName = "toString" -> Object_prototype_toString
      [] functionName = "openPath" ->
           IF args.isNull THEN Threw("Cannot read properties of null (reading 'filePath')")
           ELSE openPath(args.filePath.v, HostOf(ending).open)
      [] functionName = "searchFiles" ->
           IF args.isNull THEN Threw("Cannot read properties of null (reading 'query')")
           ELSE searchFiles(Undefined, ending)
      [] functionName = "executeAppleScript" -> runAppleScriptNeedsConfirmation(args)
      [] functionName = "readFileContent" -> readFileContent(args, HostOf(ending).entry)

\* ------------------------------------------------ the loop, step by step
UnknownToolText(functionName) == "{\"error\":\"Unknown tool function: " \o functionName \o "\"}"
PreCheckErrorText(error) == "{\"error\":\"" \o error \o "\"}"
InternalErrorText == "{\"error\":\"Internal error processing AppleScript confirmation.\"}"
ToolErrorText(functionName, message) ==
    "{\"error\":\"Error executing tool " \o functionName \o ": " \o message \o "\"}"

\* One pass of the for...of body ends in one of three ways: the body goes on to
\* the next call (act "continue", with the tool results it pushed), breaks out
\* of the batch (act "break"), or lets an exception escape to the outer catch
\* (act "throw").
Step(act, msgs, invoked, confirm, script, error, ran) ==
    [act |-> act, msgs |-> msgs, invoked |-> invoked, confirm |-> confirm,
     script |-> script, error |-> error, ran |-> ran]

\* The special handling with its `break` forgotten.
AppleScriptHandling_NoBreak(toolCall, functionResponse, ran) ==
    IF functionResponse.needsConfirmation = TRUE
    THEN Step("continue", <<>>, TRUE, TRUE, functionResponse.scriptContent, "", ran)
    ELSE IF Truthy(functionResponse.error)
         THEN Step("continue",
                   <<ToolMessage(toolCall.id, PreCheckErrorText(functionResponse.error.v))>>,
                   TRUE, FALSE, Undefined, "", ran)
         ELSE Step("continue", <<ToolMessage(toolCall.id, InternalErrorText)>>,
                   TRUE, FALSE, Undefined, "", ran)

\* The gated capability handled like any other: its response is folded back.
AppleScriptHandling_AutoFold(toolCall, functionResponse, ran) ==
    Step("continue", <<ToolMessage(toolCall.id, functionResponse.json)>>,
         TRUE, FALSE, Undefined, "", ran)

\* The special handling pushing no tool result when the pre-confirmation check
\* reports an error.
AppleScriptHandling_SilentPreCheck(toolCall, functionResponse, ran) ==
    IF functionResponse.needsConfirmation = TRUE
    THEN Step("break", <<>>, TRUE, TRUE, functionResponse.scriptContent, "", ran)
    ELSE IF Truthy(functionResponse.error)
         THEN Step("continue", <<>>, TRUE, FALSE, Undefined, "", ran)
         ELSE Step("continue", <<ToolMessage(toolCall.id, InternalErrorText)>>,
                   TRUE, FALSE, Undefined, "", ran)

\* Special handling of the gated capability's response.
AppleScriptHandling(toolCall, functionResponse, ran) ==
    IF functionResponse.needsConfirmation = TRUE
    THEN Step("break", <<>>, TRUE, TRUE, functionResponse.scriptContent, "", ran)
    ELSE IF Truthy(functionResponse.error)
         THEN Step("continue",
                   <<ToolMessage(toolCall.id, PreCheckErrorText(functionResponse.error.v))>>,
                   TRUE, FALSE, Undefined, "", ran)
         ELSE Step("continue", <<ToolMessage(toolCall.id, InternalErrorText)>>,
                   TRUE, FALSE, Undefined, "", ran)

\* The body of the for...of loop without its inner try/catch: what a capability
\* throws escapes to the outer catch.
ProcessToolCall_NoInnerCatch(toolCall, ending) ==
    LET functionName == toolCall.name
        parsed == JSON_parse(toolCall.arguments)
    IN  IF parsed.threw
        THEN Step("throw", <<>>, FALSE, FALSE, Undefined,
                  "Unexpected end of JSON input", <<>>)
        ELSE IF ~FunctionToCall(functionName)
        THEN Step("continue", <<ToolMessage(toolCall.id, UnknownToolText(functionName))>>,
                  FALSE, FALSE, Undefined, "", <<>>)
        ELSE LET called == availableFunctions(functionName, parsed.value, ending)
             IN  IF called.threw
                 THEN Step("throw", <<>>, TRUE, FALSE, Undefined, called.message, called.ran)
                 ELSE IF functionName = "executeAppleScript"
                 THEN AppleScriptHandling(toolCall, called.response, called.ran)
                 ELSE Step("continue", <<ToolMessage(toolCall.id, called.response.json)>>,
                           TRUE, FALSE, Undefined, "", called.ran)

\* The body of `for (const toolCall of toolCalls)`.
ProcessToolCall(toolCall, ending) ==
    LET functionName == toolCall.name
        parsed == JSON_parse(toolCall.arguments)
    IN  IF parsed.threw
        THEN Step("throw", <<>>, FALSE, FALSE, Undefined,
                  "Unexpected end of JSON input", <<>>)
        ELSE IF ~FunctionToCall(functionName)
        THEN Step("continue", <<ToolMessage(toolCall.id, UnknownToolText(functionName))>>,
                  FALSE, FALSE, Undefined, "", <<>>)
        ELSE LET called == availableFunctions(functionName, parsed.value, ending)
             IN  IF called.threw
                 THEN Step("continue",
                           <<ToolMessage(toolCall.id,
                                         ToolErrorText(functionName, called.message))>>,
                           TRUE, FALSE, Undefined, "", called.ran)
                 ELSE IF functionName = "executeAppleScript"
                 THEN AppleScriptHandling(toolCall, called.response, called.ran)
                 ELSE Step("continue", <<ToolMessage(toolCall.id, called.response.json)>>,
                           TRUE, FALSE, Undefined, "", called.ran)

\* unshift instead of push.
Push_Unshift(results, msgs) == msgs \o results

\* toolResultMessages.push(message)
Push(results, msgs) == results \o msgs

\* What the code does once the for...of loop over the batch is left.
Verdict(act, outcome, exit, push) ==
    [act |-> act, outcome |-> outcome, exit |-> exit, push |-> push]

\* The code after the batch without its `if (confirmationRequired)` return.
AfterBatch_IgnoresConfirmation(confirmation, script, results, responseMessage) ==
    IF Len(results) > 0
    THEN Verdict("continue", NoOutcome, "", results)
    ELSE IF Truthy(responseMessage.content)
    THEN Verdict("return", TextResponse(responseMessage.content), "text_after_tools", <<>>)
    ELSE Verdict("return",
                 ErrorOutcome("LLM interaction finished unexpectedly after tool processing without results or text."),
                 "no_results", <<>>)

\* The code after the batch going back to the oracle even without results.
AfterBatch_LoopsWithoutResults(confirmation, script, results, responseMessage) ==
    IF confirmation
    THEN IF TypeOf(script) # "string"
         THEN Verdict("return",
                      ErrorOutcome("Internal error: Invalid script content for confirmation."),
                      "confirm_invalid", <<>>)
         ELSE Verdict("return", ConfirmationRequired(script), "confirm_interrupt", <<>>)
    ELSE Verdict("continue", NoOutcome, "", results)

\* The code after the batch without its typeof check of the script.
AfterBatch_NoTypeCheck(confirmation, script, results, responseMessage) ==
    IF confirmation
    THEN Verdict("return", ConfirmationRequired(script), "confirm_interrupt", <<>>)
    ELSE IF Len(results) > 0
    THEN Verdict("continue", NoOutcome, "", results)
    ELSE IF Truthy(responseMessage.content)
    THEN Verdict("return", TextResponse(responseMessage.content), "text_after_tools", <<>>)
    ELSE Verdict("return",
                 ErrorOutcome("LLM interaction finished unexpectedly after tool processing without results or text."),
                 "no_results", <<>>)

\* The code after the batch pushing the results gathered so far before it
\* returns for confirmation.
AfterBatch_FoldsBeforeConfirmation(confirmation, script, results, responseMessage) ==
    IF confirmation
    THEN IF TypeOf(script) # "string"
         THEN Verdict("return",
                      ErrorOutcome("Internal error: Invalid script content for confirmation."),
                      "confirm_invalid", results)
         ELSE Verdict("return", ConfirmationRequired(script), "confirm_interrupt", results)
    ELSE IF Len(results) > 0
    THEN Verdict("continue", NoOutcome, "", results)
    ELSE IF Truthy(responseMessage.content)
    THEN Verdict("return", TextResponse(responseMessage.content), "text_after_tools", <<>>)
    ELSE Verdict("return",
                 ErrorOutcome("LLM interaction finished unexpectedly after tool processing without results or text."),
                 "no_results", <<>>)

\* The code after the for...of loop over the batch.
AfterBatch(confirmation, script, results, responseMessage) ==
    IF confirmation
    THEN IF TypeOf(script) # "string"
         THEN Verdict("return",
                      ErrorOutcome("Internal error: Invalid script content for confirmation."),
                      "confirm_invalid", <<>>)
         ELSE Verdict("return", ConfirmationRequired(script), "confirm_interrupt", <<>>)
    ELSE IF Len(results) > 0
    THEN Verdict("continue", NoOutcome, "", results)
    ELSE IF Truthy(responseMessage.content)
    THEN Verdict("return", TextResponse(responseMessage.content), "text_after_tools", <<>>)
    ELSE Verdict("return",
                 ErrorOutcome("LLM interaction finished unexpectedly after tool processing without results or text."),
                 "no_results", <<>>)

\* The no-tool-calls branch reporting an empty answer as an error.
NoToolCalls_ErrorOnEmpty(responseMessage) ==
    IF Truthy(responseMessage.content)
    THEN TextResponse(responseMessage.content)
    ELSE ErrorOutcome("LLM returned an empty response.")

\* The branch taken when the response carries no tool calls.
NoToolCalls(responseMessage) ==
    IF Truthy(responseMessage.content)
    THEN TextResponse(responseMessage.content)
    ELSE TextResponse(Str(""))

\* A turns loop that allows one turn more.
MoreTurns_OneMore(t) == t <= maxTurns

\* The turns loop stopping one turn early.
MoreTurns_OffByOne(t) == t < maxTurns - 1

\* for (let turn = 0; turn < maxTurns; turn++)
MoreTurns(t) == t < maxTurns

\* After the turns loop.
MaxTurnsReached(msgs) ==
    LET lastMessage == msgs[Len(msgs)]
    IN  IF lastMessage.role = "assistant" /\ Truthy(lastMessage.content)
        THEN TextResponse(lastMessage.content)
        ELSE ErrorOutcome("LLM interaction reached max turns (5) without a final response.")

\* handleLlmQuery without its catch: the exception reaches the caller.
OuterCatch_Rethrows(message) == [propagated |-> TRUE, outcome |-> NoOutcome]

\* catch (error) of handleLlmQuery: every exception becomes the error outcome.
OuterCatch(message) == [propagated |-> FALSE, outcome |-> ErrorOutcome(message)]

\* messages.push(...toolResultMessages): the Conversation keeps, of each result,
\* its role and the call id it answers; ToolResultText stands for its JSON text.
ToolResultText == Str("(the JSON text of the tool result)")

Folded(results) ==
    [i \in 1..Len(results) |->
        Message(results[i].role, ToolResultText, <<>>, results[i].tool_call_id)]

\* A fold that trims the Conversation to its first two messages and the last
\* assistant message before it pushes the results.
FoldBatch_Trims(msgs, results) ==
    SubSeq(msgs, 1, 2) \o <<msgs[Len(msgs)]>> \o Folded(results)

\* messages.push(...toolResultMessages)
FoldBatch(msgs, results) == msgs \o Folded(results)

\* ------------------------------------------- confirmed-execution entry point
ExecResult(success, output, error) == [success |-> success, output |-> output, error |-> error]
NoExecResult == [success |-> FALSE, output |-> "", error |-> "(not called)"]
ExecEndings == {"clean", "stderr", "failed_with_stderr", "failed"}

\* The entry point without its check for an empty script.
executeConfirmedAppleScript_NoEmptyCheck(scriptContent, ending) ==
    [threw |-> FALSE,
     ran |-> <<scriptContent>>,
     result |->
       CASE ending = "clean" -> ExecResult(TRUE, "stdout", "")
         [] ending = "stderr" -> ExecResult(FALSE, "", "Script execution failed: stderr")
         [] ending = "failed_with_stderr" -> ExecResult(FALSE, "", "Command failed: stderr")
         [] OTHER -> ExecResult(FALSE, "", "spawn osascript ENOENT")]

\* The entry point taking a completed run for a success whatever it wrote to
\* its error stream.
executeConfirmedAppleScript_IgnoresStderr(scriptContent, ending) ==
    IF ~Truthy(scriptContent)
    THEN [threw |-> FALSE,
          result |-> ExecResult(FALSE, "", "Cannot execute empty script."), ran |-> <<>>]
    ELSE IF TypeOf(scriptContent) # "string"
    THEN [threw |-> FALSE,
          result |-> ExecResult(FALSE, "", "scriptContent.split is not a function"),
          ran |-> <<>>]
    ELSE [threw |-> FALSE,
          ran |-> <<scriptContent>>,
          result |->
            CASE ending = "clean" -> ExecResult(TRUE, "stdout", "")
              [] ending = "stderr" -> ExecResult(TRUE, "stdout", "")
              [] ending = "failed_with_stderr" -> ExecResult(FALSE, "", "Command failed: stderr")
              [] OTHER -> ExecResult(FALSE, "", "spawn osascript ENOENT")]

\* executeConfirmedAppleScript: what it returns, whether it threw, and what it
\* handed to osascript.  A scriptContent that is truthy but not a string makes
\* scriptContent.split throw inside the try block.
executeConfirmedAppleScript(scriptContent, ending) ==
    IF ~Truthy(scriptContent)
    THEN [threw |-> FALSE,
          result |-> ExecResult(FALSE, "", "Cannot execute empty script."), ran |-> <<>>]
    ELSE IF TypeOf(scriptContent) # "string"
    THEN [threw |-> FALSE,
          result |-> ExecResult(FALSE, "", "scriptContent.split is not a function"),
          ran |-> <<>>]
    ELSE [threw |-> FALSE,
          ran |-> <<scriptContent>>,
          result |->
            CASE ending = "clean" -> ExecResult(TRUE, "stdout", "")
              [] ending = "stderr" -> ExecResult(FALSE, "", "Script execution failed: stderr")
              [] ending = "failed_with_stderr" -> ExecResult(FALSE, "", "Command failed: stderr")
              [] OTHER -> ExecResult(FALSE, "", "spawn osascript ENOENT")]

\* ------------------------------------------------------------- the adapter
\* What an invocation of the loop can return to its caller.
LoopErrors ==
    { "Request failed",
      "Unexpected end of JSON input",
      "Internal error: Invalid script content for confirmation.",
      "LLM interaction reached max turns (5) without a final response." }

LoopOutcomes ==
    {TextResponse(Str("")), TextResponse(Str("some text"))}
    \cup {ConfirmationRequired(Str(s)) : s \in Scripts}
    \cup {ErrorOutcome(m) : m \in LoopErrors}

\* const api = {...}: the methods the preload script puts on window.api.
api == {"listApplications", "openPath", "searchFiles", "llmQuery"}

\* useState<{ scriptContent: string } | null>
Request(scriptContent) == [t |-> "object", v |-> scriptContent]

\* The state of the App component after its first render.
InitialApp ==
    [searchQuery |-> "", isLoading |-> FALSE, isConfirming |-> FALSE,
     confirmationRequest |-> Null, llmResponseText |-> Null]

\* An input that stays enabled while a confirmation is pending.
InputDisabled_IgnoresRequest(a) == a.isLoading \/ a.isConfirming

\* <Input disabled={isLoading || isConfirming || !!confirmationRequest} />
InputDisabled(a) == a.isLoading \/ a.isConfirming \/ Truthy(a.confirmationRequest)

\* {confirmationRequest && !isConfirming && (...the banner with its two buttons...)}
BannerShown(a) == Truthy(a.confirmationRequest) /\ ~a.isConfirming

\* handleSearch: setSearchQuery(e.target.value)
handleSearch(a, text) == [a EXCEPT !.searchQuery = text]

\* The guard of handleLlmSubmit (window.api is defined by the preload script).
MaySubmit(a) == a.searchQuery # "" /\ ~a.isLoading /\ ~a.isConfirming

\* handleLlmSubmit up to `await window.api.llmQuery(searchQuery)`.
handleLlmSubmit(a) ==
    [a EXCEPT !.isLoading = TRUE, !.llmResponseText = Null, !.confirmationRequest = Null]

\* The if / else-if chain on result.type: the branch that runs for result.
ResultBranch(result) ==
    CASE result.type = "applescript_confirmation_required" -> "applescript_confirmation_required"
      [] result.type = "tool_executed" -> "tool_executed"
      [] result.type = "text_response" -> "text_response"
      [] result.type = "error" -> "error"
      [] OTHER -> "else"

\* handleLlmSubmit from the point where llmQuery has resolved with result.
handleLlmResult(a, result) ==
    LET shown ==
          CASE result.type = "applescript_confirmation_required" ->
                 [a EXCEPT !.confirmationRequest =
                               IF Truthy(result.scriptContent)
                                  /\ TypeOf(result.scriptContent) = "string"
                               THEN Request(result.scriptContent.v)
                               ELSE a.confirmationRequest,
                           !.llmResponseText = Null]
            [] result.type = "tool_executed" -> [a EXCEPT !.llmResponseText = Null]
            [] result.type = "text_response" -> [a EXCEPT !.llmResponseText = result.content]
            [] result.type = "error" ->
                 [a EXCEPT !.llmResponseText = Str("Error: " \o result.error)]
            [] OTHER ->
                 [a EXCEPT !.llmResponseText =
                               Str("Internal Error: Unknown response type " \o result.type)]
    IN  [shown EXCEPT !.isLoading = FALSE]

\* The catch block of handleLlmSubmit without the finally block after it.
handleLlmRejection_NoFinally(a, message) ==
    [a EXCEPT !.llmResponseText = Str("IPC Error: " \o message)]

\* handleLlmSubmit from the point where llmQuery has rejected: the catch block,
\* then finally { setIsLoading(false); }.
handleLlmRejection(a, message) ==
    [a EXCEPT !.llmResponseText = Str("IPC Error: " \o message), !.isLoading = FALSE]

\* What ipcRenderer.invoke('llm-query', ...) rejects with.
RejectionMessages == {"Error invoking remote method 'llm-query'"}

\* A cancel that also empties the input field.
handleCancelConfirmation_ClearsInput(a) ==
    [a EXCEPT !.confirmationRequest = Null,
              !.llmResponseText = Str("Script execution cancelled."),
              !.searchQuery = ""]

handleCancelConfirmation(a) ==
    [a EXCEPT !.confirmationRequest = Null,
              !.llmResponseText = Str("Script execution cancelled.")]

\* The finally block of handleConfirmRun leaving the request in place.
ConfirmRunFinally_KeepsRequest(a) == [a EXCEPT !.isConfirming = FALSE]

\* finally { setConfirmationRequest(null); setIsConfirming(false); }
ConfirmRunFinally(a) == [a EXCEPT !.confirmationRequest = Null, !.isConfirming = FALSE]

\* handleConfirmRun.  window.api.executeConfirmedAppleScript(...) is a call of
\* a property of window.api: when the bridge does not carry it the call throws
\* a TypeError before anything is awaited, the catch block shows it and the
\* handler is over.  Otherwise the entry point of the main process is invoked
\* with the request's script and its result is shown.
handleConfirmRun(a, ending) ==
    IF "executeConfirmedAppleScript" \notin api
    THEN [invoked |-> FALSE, script |-> Undefined,
          app |-> ConfirmRunFinally(
                    [a EXCEPT !.llmResponseText =
                       Str("IPC Error during script execution: window.api.executeConfirmedAppleScript is not a function")])]
    ELSE LET script == Str(a.confirmationRequest.v)
             execution == executeConfirmedAppleScript(script, ending).result
         IN  [invoked |-> TRUE, script |-> script,
              app |-> ConfirmRunFinally(
                        [a EXCEPT !.llmResponseText =
                           IF execution.success
                           THEN Str("Script executed successfully." \o
                                    (IF execution.output # ""
                                     THEN "\nOutput:\n" \o execution.output ELSE ""))
                           ELSE Str("Script Execution Failed: " \o
                                    (IF execution.error # ""
                                     THEN execution.error ELSE "Unknown error"))])]

\* What became of the ConfirmationRequest the adapter received last: how often
\* the user's approval and the user's cancel acted on it.
NoRequestYet == [state |-> "none", script |-> "", runs |-> 0, cancels |-> 0]
NewRequest(script) == [state |-> "pending", script |-> script, runs |-> 0, cancels |-> 0]

NotSignalled == [id |-> 0, script |-> Undefined]
NoResponse == [kind |-> "none", content |-> Undefined, calls |-> 0]
NoToolResult == [id |-> 0, name |-> "", text |-> "", host |-> <<>>]

\* The state of the legacy App component after its first render.
InitialLegacyApp ==
    [searchQuery |-> "", isLoading |-> FALSE, llmResponseText |-> Null, applications |-> <<>>]

\* The two invocations of handleLlmQuery that can be in flight together: the
\* test call made at startup and the one behind ipcMain.handle('llm-query').
Invocations == {"test call", "llm-query"}

NotStarted == [pc |-> "not started", turn |-> 0]

NotApplied == [fn |-> "", args |-> <<>>, host |-> <<>>, returned |-> <<>>]

\* ---------------------------------------------------------------- state
VARIABLES
    pc,                    \* where handleLlmQuery stands: idle, awaiting, dispatching, done
    messages,              \* the Conversation
    turn,                  \* the loop counter
    toolCalls,             \* responseMessage.tool_calls of the current turn
    idx,                   \* position of the for...of loop in toolCalls
    toolResultMessages,    \* results gathered for the current batch
    confirmationRequired,
    scriptToConfirm,
    outcome,               \* the value handleLlmQuery returned
    exit,                  \* the return statement that produced it
    returns,               \* how many values this invocation returned
    propagated,            \* an exception escaped handleLlmQuery
    oracleRequests,        \* calls of openai.chat.completions.create in this invocation
    toolTurns,             \* oracle responses of this invocation that carried tool calls
    batchesFolded,         \* batches whose results were pushed onto messages
    callsIssued,           \* tool calls the oracle issued in this invocation
    invoked,               \* ids of the calls whose capability function was called
    signalled,             \* the call whose phase 1 asked for confirmation: its id (or 0) and script
    lastResponse,          \* what the oracle answered last: nothing yet, a failure, or a message
    lastToolResult,        \* the tool result folded last, until the next batch starts: the
                           \* call it answers, its text, the host operations behind it
    osascriptRuns,         \* scripts handed to osascript, with the function that did it
    execCalls,             \* calls of the confirmed-execution entry point
    execScript,            \* the scriptContent the last of them was given
    execResult,            \* what the last of them returned
    app,                   \* the state of the App component
    pendingQueries,        \* llmQuery promises the adapter is awaiting
    testCall,              \* the test call of handleLlmQuery made at startup
    lastResult,            \* the last result llmQuery resolved with
    branch,                \* the branch of the result.type dispatch that handled it
    request,               \* the fate of the last ConfirmationRequest
    legacyApp,             \* the state of the legacy App component
    applied,               \* a function of the main process applied on its own: its
                           \* arguments, the host it met, what it returned
    arrays,                \* the messages arrays of the invocations in flight together
    stage,                 \* where each of them stands
    utterance,             \* the userQuery each of them was given
    firstRequest           \* the messages of the first oracle request each of them made

loopVars == <<messages, turn, toolCalls, idx, toolResultMessages, confirmationRequired,
              scriptToConfirm>>
ghostVars == <<oracleRequests, toolTurns, batchesFolded, callsIssued, invoked, signalled,
               lastResponse, lastToolResult>>
execVars == <<osascriptRuns, execCalls, execScript, execResult>>
mainVars == <<pc, loopVars, outcome, exit, returns, propagated, ghostVars, execVars>>
adapterVars == <<app, pendingQueries, testCall, lastResult, branch, request>>
legacyVars == <<legacyApp>>
functionVars == <<applied>>
invocationVars == <<arrays, stage, utterance, firstRequest>>
notMain == <<adapterVars, legacyVars, functionVars, invocationVars>>
notAdapter == <<legacyVars, functionVars, invocationVars>>
vars == <<mainVars, adapterVars, legacyVars, functionVars, invocationVars>>

Init ==
    /\ pc = "idle"
    /\ messages = <<>>
    /\ turn = 0
    /\ toolCalls = <<>>
    /\ idx = 0
    /\ toolResultMessages = <<>>
    /\ confirmationRequired = FALSE
    /\ scriptToConfirm = Str("")
    /\ outcome = NoOutcome
    /\ exit = ""
    /\ returns = 0
    /\ propagated = FALSE
    /\ oracleRequests = 0
    /\ toolTurns = 0
    /\ batchesFolded = 0
    /\ callsIssued = 0
    /\ invoked = <<>>
    /\ signalled = NotSignalled
    /\ lastResponse = NoResponse
    /\ lastToolResult = NoToolResult
    /\ osascriptRuns = <<>>
    /\ execCalls = 0
    /\ execScript = Undefined
    /\ execResult = NoExecResult
    /\ app = InitialApp
    /\ pendingQueries = 0
    /\ testCall = "in_flight"
    /\ lastResult = NoOutcome
    /\ branch = ""
    /\ request = NoRequestYet
    /\ legacyApp = InitialLegacyApp
    /\ applied = NotApplied
    /\ arrays = [k \in Invocations |-> <<>>]
    /\ stage = [k \in Invocations |-> NotStarted]
    /\ utterance = [k \in Invocations |-> ""]
    /\ firstRequest = [k \in Invocations |-> <<>>]

\* The host operations that processing toolCall makes.
HostOps(toolCall, ending) ==
    IF JSON_parse(toolCall.arguments).threw \/ ~FunctionToCall(toolCall.name) THEN <<>>
    ELSE availableFunctions(toolCall.name, JSON_parse(toolCall.arguments).value, ending).host

\* Phase 1 of the gate was reached for toolCall and answered needsConfirmation: true.
NeedsConfirmationSignalled(toolCall, ending) ==
    /\ toolCall.name = "executeAppleScript"
    /\ ~JSON_parse(toolCall.arguments).threw
    /\ LET called == availableFunctions(toolCall.name, JSON_parse(toolCall.arguments).value, ending)
       IN  ~called.threw /\ called.response.needsConfirmation = TRUE

Ran(scripts, by) == [i \in 1..Len(scripts) |-> [script |-> scripts[i], by |-> by]]

\* `return value` / an exception leaving handleLlmQuery.
Return(value, from) ==
    /\ pc' = "done"
    /\ outcome' = value
    /\ exit' = from
    /\ returns' = returns + 1
    /\ propagated' = FALSE

\* An exception that sends the loop back to the oracle instead of ending the
\* invocation.
Caught_Retries(message) ==
    /\ pc' = "awaiting"
    /\ UNCHANGED <<outcome, exit, returns, propagated>>

Caught(message) ==
    LET c == OuterCatch(message)
    IN  /\ pc' = "done"
        /\ outcome' = c.outcome
        /\ exit' = "catch"
        /\ returns' = IF c.propagated THEN returns ELSE returns + 1
        /\ propagated' = c.propagated

\* ipcMain.handle('llm-query', handleLlmQuery): a new invocation starts with a
\* fresh Conversation.  The observation variables describe one round: a query
\* and the confirmed execution that may follow it.
HandleLlmQuery(userQuery) ==
    /\ pc \in {"idle", "done"}
    /\ pc' = "awaiting"
    /\ messages' = InitialMessages(userQuery)
    /\ turn' = 0
    /\ toolCalls' = <<>>
    /\ idx' = 0
    /\ toolResultMessages' = <<>>
    /\ confirmationRequired' = FALSE
    /\ scriptToConfirm' = Str("")
    /\ outcome' = NoOutcome
    /\ exit' = ""
    /\ returns' = 0
    /\ propagated' = FALSE
    /\ oracleRequests' = 0
    /\ toolTurns' = 0
    /\ batchesFolded' = 0
    /\ callsIssued' = 0
    /\ invoked' = <<>>
    /\ signalled' = NotSignalled
    /\ lastResponse' = NoResponse
    /\ lastToolResult' = NoToolResult
    /\ osascriptRuns' = <<>>
    /\ execCalls' = 0
    /\ execScript' = Undefined
    /\ execResult' = NoExecResult
    /\ UNCHANGED notMain

\* The batches the oracle may answer with: at most MaxBatch calls, ids unique
\* within the invocation, and at most MaxCalls calls in one invocation.
Batches(n) ==
    UNION { [1..k -> CallShapes] : k \in 0..(IF MaxCalls - n < MaxBatch THEN MaxCalls - n ELSE MaxBatch) }

ToolCalls(shapes, n) ==
    [i \in 1..Len(shapes) |->
        [id |-> n + i, name |-> shapes[i][1], arguments |-> shapes[i][2]]]

\* await openai.chat.completions.create(...) throws.
OracleFails ==
    /\ pc = "awaiting"
    /\ oracleRequests' = oracleRequests + 1
    /\ Caught("Request failed")
    /\ lastResponse' = [kind |-> "threw", content |-> Undefined, calls |-> 0]
    /\ UNCHANGED <<loopVars, toolTurns, batchesFolded, callsIssued, invoked, signalled,
                   lastToolResult, execVars, notMain>>

\* A loop that does not dispatch the batch of its last turn.
HasToolCalls_NotOnLastTurn(calls) == Len(calls) > 0 /\ MoreTurns(turn + 1)

\* if (toolCalls && toolCalls.length > 0)
HasToolCalls(calls) == Len(calls) > 0

\* await openai.chat.completions.create(...) answers; the code up to the first
\* await of the batch (or up to the return of the no-tool-calls branch).
OracleResponds(content, shapes) ==
    /\ pc = "awaiting"
    /\ oracleRequests' = oracleRequests + 1
    /\ LET calls == ToolCalls(shapes, callsIssued)
           responseMessage == ResponseMessage(content, calls)
       IN  /\ messages' = Append(messages, responseMessage)
           /\ callsIssued' = callsIssued + Len(calls)
           /\ IF HasToolCalls(calls)
              THEN /\ pc' = "dispatching"
                   /\ toolCalls' = calls
                   /\ idx' = 1
                   /\ toolResultMessages' = <<>>
                   /\ confirmationRequired' = FALSE
                   /\ scriptToConfirm' = Str("")
                   /\ toolTurns' = toolTurns + 1
                   /\ invoked' = <<>>
                   /\ lastToolResult' = NoToolResult
                   /\ UNCHANGED <<outcome, exit, returns, propagated>>
              ELSE /\ Return(NoToolCalls(responseMessage), "no_tool_calls")
                   /\ UNCHANGED <<toolCalls, idx, toolResultMessages, confirmationRequired,
                                  scriptToConfirm, toolTurns, invoked, lastToolResult>>
    /\ lastResponse' = [kind |-> "message", content |-> content, calls |-> Len(shapes)]
    /\ UNCHANGED <<turn, batchesFolded, signalled, execVars, notMain>>

\* One tool call of the batch is processed; when it was the last one, or the
\* loop breaks, the code after the batch runs in the same step, and so does the
\* code after the turns loop when the turn budget is used up.
DispatchToolCall(ending) ==
    /\ pc = "dispatching"
    /\ LET toolCall == toolCalls[idx]
           step == ProcessToolCall(toolCall, ending)
           results == Push(toolResultMessages, step.msgs)
           confirmation == confirmationRequired \/ step.confirm
           script == IF step.confirm THEN step.script ELSE scriptToConfirm
           verdict == AfterBatch(confirmation, script, results, messages[Len(messages)])
           folded == FoldBatch(messages, verdict.push)
           answered == IF step.msgs = <<>> THEN lastToolResult
                       ELSE [id |-> toolCall.id, name |-> toolCall.name,
                             text |-> step.msgs[1].content,
                             host |-> HostOps(toolCall, ending)]
           leaves == step.act = "continue" /\ idx = Len(toolCalls)
                     /\ verdict.act = "continue" /\ MoreTurns(turn + 1)
       IN  /\ invoked' = IF leaves THEN <<>>
                          ELSE IF step.invoked THEN Append(invoked, toolCall.id) ELSE invoked
           /\ osascriptRuns' = osascriptRuns \o Ran(step.ran, "handleLlmQuery")
           /\ signalled' = IF NeedsConfirmationSignalled(toolCall, ending)
                            THEN [id |-> toolCall.id,
                                  script |-> JSON_parse(toolCall.arguments).value.scriptContent]
                            ELSE signalled
           /\ IF step.act = "throw"
              THEN /\ Caught(step.error)
                   /\ UNCHANGED <<loopVars, batchesFolded, lastToolResult>>
              ELSE IF step.act = "continue" /\ idx < Len(toolCalls)
              THEN /\ idx' = idx + 1
                   /\ toolResultMessages' = results
                   /\ confirmationRequired' = confirmation
                   /\ scriptToConfirm' = script
                   /\ UNCHANGED <<pc, messages, turn, toolCalls, outcome, exit, returns,
                                  propagated, batchesFolded, lastToolResult>>
              ELSE IF verdict.act = "return"
              THEN /\ Return(verdict.outcome, verdict.exit)
                   /\ messages' = folded
                   /\ toolResultMessages' = results
                   /\ confirmationRequired' = confirmation
                   /\ scriptToConfirm' = script
                   /\ UNCHANGED <<turn, toolCalls, idx, batchesFolded, lastToolResult>>
              ELSE /\ messages' = folded
                   /\ lastToolResult' = answered
                   /\ batchesFolded' = batchesFolded + 1
                   /\ turn' = turn + 1
                   /\ IF MoreTurns(turn + 1)
                      THEN \* `continue`: the block's locals leave scope
                           /\ pc' = "awaiting"
                           /\ toolCalls' = <<>>
                           /\ idx' = 0
                           /\ toolResultMessages' = <<>>
                           /\ confirmationRequired' = FALSE
                           /\ scriptToConfirm' = Str("")
                           /\ UNCHANGED <<outcome, exit, returns, propagated>>
                      ELSE /\ Return(MaxTurnsReached(folded), "max_turns")
                           /\ toolResultMessages' = results
                           /\ confirmationRequired' = confirmation
                           /\ scriptToConfirm' = script
                           /\ UNCHANGED <<toolCalls, idx>>
    /\ UNCHANGED <<oracleRequests, toolTurns, callsIssued, lastResponse, execCalls, execScript,
                   execResult, notMain>>

\* ipcMain.handle('execute-confirmed-applescript', executeConfirmedAppleScript),
\* called with an empty or a non-empty script text (whatever script was
\* confirmed), before any query or once a query has returned the confirmation
\* outcome.
ScriptArguments == {Str(""), Str("S1")}

ExecuteConfirmedAppleScript(scriptContent, ending) ==
    /\ \/ pc = "idle"
       \/ pc = "done" /\ outcome.type = "applescript_confirmation_required"
    /\ execCalls < MaxExecCalls
    /\ LET r == executeConfirmedAppleScript(scriptContent, ending)
       IN  /\ execResult' = r.result
           /\ osascriptRuns' = osascriptRuns \o Ran(r.ran, "executeConfirmedAppleScript")
    /\ execCalls' = execCalls + 1
    /\ execScript' = scriptContent
    /\ UNCHANGED <<pc, loopVars, outcome, exit, returns, propagated, ghostVars, notMain>>

Next ==
    \/ \E q \in Queries : HandleLlmQuery(q)
    \/ OracleFails
    \/ \E shapes \in Batches(callsIssued) :
          \E content \in (IF shapes = <<>> THEN Contents ELSE ToolTurnContents) :
             OracleResponds(content, shapes)
    \/ \E ending \in ProviderEndings : DispatchToolCall(ending)
    \/ \E s \in ScriptArguments : \E ending \in ExecEndings :
          ExecuteConfirmedAppleScript(s, ending)

Spec == Init /\ [][Next]_vars

\* An invocation in flight goes on: the oracle request it awaits is answered or
\* fails, and the capability it has called returns or throws.
OracleSettles ==
    \/ OracleFails
    \/ \E shapes \in Batches(callsIssued) :
          \E content \in (IF shapes = <<>> THEN Contents ELSE ToolTurnContents) :
             OracleResponds(content, shapes)

CapabilitySettles == \E ending \in ProviderEndings : DispatchToolCall(ending)

FairSpec == Spec /\ WF_vars(OracleSettles) /\ WF_vars(CapabilitySettles)

\* ------------------------------------------------------ the adapter's steps
\* The user edits the input field.
HandleSearch(text) ==
    /\ ~InputDisabled(app)
    /\ text # app.searchQuery
    /\ app' = handleSearch(app, text)
    /\ UNCHANGED <<mainVars, pendingQueries, testCall, lastResult, branch, request, notAdapter>>

\* The user presses Enter in the input field: handleLlmSubmit runs up to its
\* await, and the main process starts an invocation of handleLlmQuery.  A
\* request that was still pending is dropped by setConfirmationRequest(null).
HandleKeyDown ==
    /\ ~InputDisabled(app)
    /\ MaySubmit(app)
    /\ app' = handleLlmSubmit(app)
    /\ pendingQueries' = pendingQueries + 1
    /\ request' = IF request.state = "pending"
                  THEN [request EXCEPT !.state = "terminated", !.cancels = @ + 1]
                  ELSE request
    /\ UNCHANGED <<mainVars, testCall, lastResult, branch, notAdapter>>

\* The invocation the adapter is awaiting returns; the rest of handleLlmSubmit
\* runs.
LlmQuerySettles(result) ==
    /\ pendingQueries > 0
    /\ pendingQueries' = pendingQueries - 1
    /\ app' = handleLlmResult(app, result)
    /\ lastResult' = result
    /\ branch' = ResultBranch(result)
    /\ request' = IF result.type = "applescript_confirmation_required"
                  THEN NewRequest(result.scriptContent.v)
                  ELSE request
    /\ UNCHANGED <<mainVars, testCall, notAdapter>>

\* The promise the adapter is awaiting rejects; the catch and finally blocks of
\* handleLlmSubmit run.
LlmQueryRejects(message) ==
    /\ pendingQueries > 0
    /\ pendingQueries' = pendingQueries - 1
    /\ app' = handleLlmRejection(app, message)
    /\ UNCHANGED <<mainVars, testCall, lastResult, branch, request, notAdapter>>

\* The test call made at startup returns; its result is only logged.
TestCallReturns ==
    /\ testCall = "in_flight"
    /\ testCall' = "returned"
    /\ UNCHANGED <<mainVars, app, pendingQueries, lastResult, branch, request, notAdapter>>

\* The user clicks Cancel on the banner.
HandleCancelConfirmation ==
    /\ BannerShown(app)
    /\ app' = handleCancelConfirmation(app)
    /\ request' = [request EXCEPT !.state = "terminated", !.cancels = @ + 1]
    /\ UNCHANGED <<mainVars, pendingQueries, testCall, lastResult, branch, notAdapter>>

\* The user clicks Run Script on the banner.
HandleConfirmRun(ending) ==
    /\ BannerShown(app)
    /\ Truthy(app.confirmationRequest) /\ ~app.isConfirming
    /\ LET run == handleConfirmRun(app, ending)
       IN  /\ app' = run.app
           /\ IF run.invoked
              THEN LET r == executeConfirmedAppleScript(run.script, ending)
                   IN  /\ execResult' = r.result
                       /\ osascriptRuns' = osascriptRuns \o Ran(r.ran, "executeConfirmedAppleScript")
                       /\ execCalls' = execCalls + 1
                       /\ execScript' = run.script
              ELSE UNCHANGED execVars
    /\ request' = [request EXCEPT !.state = "terminated", !.runs = @ + 1]
    /\ UNCHANGED <<pc, loopVars, outcome, exit, returns, propagated, ghostVars,
                   pendingQueries, testCall, lastResult, branch, notAdapter>>

AdapterNext ==
    \/ \E text \in {""} \cup Queries : HandleSearch(text)
    \/ HandleKeyDown
    \/ \E result \in LoopOutcomes : LlmQuerySettles(result)
    \/ \E message \in RejectionMessages : LlmQueryRejects(message)
    \/ TestCallReturns
    \/ HandleCancelConfirmation
    \/ \E ending \in ExecEndings : HandleConfirmRun(ending)

AdapterSpec == Init /\ [][AdapterNext]_vars

\* The promise of window.api.llmQuery that the adapter awaits settles: it
\* resolves with an outcome or rejects.
LlmQueryCompletes ==
    \/ \E result \in LoopOutcomes : LlmQuerySettles(result)
    \/ \E message \in RejectionMessages : LlmQueryRejects(message)

FairAdapterSpec == AdapterSpec /\ WF_vars(LlmQueryCompletes)

\* ------------------------------------------------- the legacy adapter
\* The legacy App component (the second component of src/unnamed/part_000): it
\* knows no confirmation.  LegacyAdapterSpec is the renderer built from it.

\* <Input disabled={isLoading} />
LegacyInputDisabled(a) == a.isLoading

\* if (!searchQuery || !window.api) return
LegacyMaySubmit(a) == a.searchQuery # ""

\* handleLlmSubmit up to `await window.api.llmQuery(searchQuery)`.
LegacyHandleLlmSubmit(a) == [a EXCEPT !.isLoading = TRUE, !.llmResponseText = Null]

\* The if / else-if chain on result.type, which has no final else: the branch
\* that runs for result, "none" when no branch does.
LegacyResultBranch(result) ==
    CASE result.type = "tool_executed" -> "tool_executed"
      [] result.type = "text_response" -> "text_response"
      [] result.type = "error" -> "error"
      [] OTHER -> "none"

\* handleLlmSubmit from the point where llmQuery has resolved with result.
LegacyHandleLlmResult(a, result) ==
    LET shown ==
          CASE result.type = "tool_executed" -> [a EXCEPT !.llmResponseText = Null]
            [] result.type = "text_response" -> [a EXCEPT !.llmResponseText = result.content]
            [] result.type = "error" ->
                 [a EXCEPT !.llmResponseText = Str("Error: " \o result.error)]
            [] OTHER -> a
    IN  [shown EXCEPT !.isLoading = FALSE]

LegacyHandleSearch(text) ==
    /\ ~LegacyInputDisabled(legacyApp)
    /\ text # legacyApp.searchQuery
    /\ legacyApp' = handleSearch(legacyApp, text)
    /\ UNCHANGED <<mainVars, adapterVars, functionVars, invocationVars>>

\* useEffect on mount: window.api.listApplications().then(setApplications)
\* settles with a list of applications.
LegacyApplicationsLoaded(items) ==
    /\ legacyApp.applications = <<>>
    /\ items # <<>>
    /\ legacyApp' = [legacyApp EXCEPT !.applications = items]
    /\ UNCHANGED <<mainVars, adapterVars, functionVars, invocationVars>>

LegacyHandleKeyDown ==
    /\ ~LegacyInputDisabled(legacyApp)
    /\ LegacyMaySubmit(legacyApp)
    /\ legacyApp' = LegacyHandleLlmSubmit(legacyApp)
    /\ pendingQueries' = pendingQueries + 1
    /\ UNCHANGED <<mainVars, app, testCall, lastResult, branch, request, functionVars,
                   invocationVars>>

LegacyLlmQuerySettles(result) ==
    /\ pendingQueries > 0
    /\ pendingQueries' = pendingQueries - 1
    /\ legacyApp' = LegacyHandleLlmResult(legacyApp, result)
    /\ lastResult' = result
    /\ branch' = LegacyResultBranch(result)
    /\ UNCHANGED <<mainVars, app, testCall, request, functionVars, invocationVars>>

LegacyAdapterNext ==
    \/ \E text \in {""} \cup Queries : LegacyHandleSearch(text)
    \/ \E directory \in Directories : LegacyApplicationsLoaded(AppInfos(directory))
    \/ LegacyHandleKeyDown
    \/ \E result \in LoopOutcomes : LegacyLlmQuerySettles(result)
    \/ TestCallReturns

LegacyAdapterSpec == Init /\ [][LegacyAdapterNext]_vars

\* ------------------------------------------- invocations in flight together
\* InvocationsSpec is handleLlmQuery seen from its messages array only: the
\* invocations of Invocations run interleaved, each through its turns, and a
\* batch of tool calls is dispatched and folded within the step that receives
\* it.  Every element of an array is kept with the invocation that pushed it.
PushedBy(msgs, k) == [i \in 1..Len(msgs) |-> [message |-> msgs[i], by |-> k]]
Plain(pushed) == [i \in 1..Len(pushed) |-> pushed[i].message]

\* One messages array at module level, used by every invocation.
MessagesOf_ModuleLevel(k) == "test call"

\* `const messages = [...]` is a local of handleLlmQuery: the array an
\* invocation works on is its own.
MessagesOf(k) == k

\* The utterances an invocation can be given: the test call is made with
\* "list my applications".
UtterancesOf(k) == IF k = "test call" THEN {"list my applications"} ELSE Queries

\* handleLlmQuery is entered: messages is initialised and the first oracle
\* request is made with it.  The handler of 'llm-query' can be entered again
\* once it has returned.
StartInvocation(k, userQuery) ==
    /\ \/ stage[k].pc = "not started"
       \/ k = "llm-query" /\ stage[k].pc = "returned"
    /\ arrays' = [arrays EXCEPT ![MessagesOf(k)] = PushedBy(InitialMessages(userQuery), k)]
    /\ firstRequest' = [firstRequest EXCEPT ![k] = Plain(arrays'[MessagesOf(k)])]
    /\ utterance' = [utterance EXCEPT ![k] = userQuery]
    /\ stage' = [stage EXCEPT ![k] = [pc |-> "awaiting", turn |-> 0]]
    /\ UNCHANGED <<mainVars, adapterVars, legacyVars, functionVars>>

\* The oracle answers invocation k: the response is pushed; without tool calls
\* the invocation returns, with tool calls their results are pushed and the
\* next turn begins, unless the turns are used up.
InvocationTurn(k, content, shapes) ==
    /\ stage[k].pc = "awaiting"
    /\ LET calls == ToolCalls(shapes, stage[k].turn * MaxBatch)
           responseMessage == ResponseMessage(content, calls)
           results == [i \in 1..Len(calls) |-> ToolMessage(calls[i].id, "{\"success\":true}")]
           pushed == Append(arrays[MessagesOf(k)], [message |-> responseMessage, by |-> k])
       IN  IF Len(calls) = 0
           THEN /\ arrays' = [arrays EXCEPT ![MessagesOf(k)] = pushed]
                /\ stage' = [stage EXCEPT ![k] = [pc |-> "returned", turn |-> @.turn]]
           ELSE /\ arrays' = [arrays EXCEPT ![MessagesOf(k)] =
                                                pushed \o PushedBy(Folded(results), k)]
                /\ stage' = [stage EXCEPT ![k] =
                                [pc |-> IF MoreTurns(@.turn + 1) THEN "awaiting" ELSE "returned",
                                 turn |-> @.turn + 1]]
    /\ UNCHANGED <<mainVars, adapterVars, legacyVars, functionVars, utterance, firstRequest>>

\* The oracle request of invocation k fails: the invocation returns the error.
InvocationFails(k) ==
    /\ stage[k].pc = "awaiting"
    /\ stage' = [stage EXCEPT ![k] = [pc |-> "returned", turn |-> @.turn]]
    /\ UNCHANGED <<mainVars, adapterVars, legacyVars, functionVars, arrays, utterance,
                   firstRequest>>

InvocationsNext ==
    \/ \E k \in Invocations : \E userQuery \in UtterancesOf(k) : StartInvocation(k, userQuery)
    \/ \E k \in Invocations :
          \/ \E content \in Contents : InvocationTurn(k, content, <<>>)
          \/ InvocationTurn(k, Null, << <<"readFileContent", ArgsFile>> >>)
    \/ \E k \in Invocations : InvocationFails(k)

InvocationsSpec == Init /\ [][InvocationsNext]_vars

\* The Conversation of invocation k.
ConversationOf(k) == arrays[MessagesOf(k)]

\* ------------------------------------- the functions of the main process
\* FunctionsSpec applies the capability providers and the code that follows a
\* batch one at a time, to the arguments and the hosts below.
Paths == {"/f", "/Applications/Safari.app"}

\* The results a batch can leave in toolResultMessages, none included.
ResultTexts == {UnknownToolText("noSuchTool"), "{\"success\":true}"}
BatchResults ==
    UNION { { [i \in 1..k |-> ToolMessage(i, f[i])] : f \in [1..k -> ResultTexts] } : k \in 0..MaxBatch }

ScriptsToConfirm == {Str(""), Str("S1"), Num("1")}

ResponseMessages ==
    { ResponseMessage(c, ToolCalls(<< <<"noSuchTool", ArgsEmptyObject>> >>, 0)) : c \in Contents }

Application(fn, args, host, returned) ==
    [fn |-> fn, args |-> args, host |-> host, returned |-> returned]

ListApplications(e) ==
    /\ applied' = Application("listApplications", <<>>, e, listApplications(e))
    /\ UNCHANGED <<mainVars, adapterVars, legacyVars, invocationVars>>

OpenPath(filePath, o) ==
    /\ applied' = Application("openPath", <<filePath>>, o, openPath(filePath, o))
    /\ UNCHANGED <<mainVars, adapterVars, legacyVars, invocationVars>>

ReadFileContent(filePath, entry) ==
    /\ applied' = Application("readFileContent", <<filePath>>, entry,
                              readFileContent(ParsedArgs(FALSE, Undefined, Str(filePath)), entry))
    /\ UNCHANGED <<mainVars, adapterVars, legacyVars, invocationVars>>

\* executeConfirmedAppleScript(event, scriptContent)
ExecuteConfirmed(scriptContent, ending) ==
    /\ applied' = Application("executeConfirmedAppleScript", <<scriptContent>>, ending,
                              executeConfirmedAppleScript(scriptContent, ending))
    /\ UNCHANGED <<mainVars, adapterVars, legacyVars, invocationVars>>

\* The code of handleLlmQuery that follows the for...of loop over the batch.
PostBatch(confirmation, script, results, responseMessage) ==
    /\ applied' = Application("afterBatch",
                              [confirmation |-> confirmation, script |-> script,
                               results |-> results, responseMessage |-> responseMessage],
                              <<>>,
                              AfterBatch(confirmation, script, results, responseMessage))
    /\ UNCHANGED <<mainVars, adapterVars, legacyVars, invocationVars>>

FunctionsNext ==
    \/ \E e \in Enumerations : ListApplications(e)
    \/ \E filePath \in Paths : \E o \in Openings : OpenPath(filePath, o)
    \/ \E filePath \in Paths : \E entry \in Entries : ReadFileContent(filePath, entry)
    \/ \E scriptContent \in ScriptsToConfirm : \E ending \in ExecEndings :
          ExecuteConfirmed(scriptContent, ending)
    \/ \E confirmation \in BOOLEAN : \E script \in ScriptsToConfirm :
          \E results \in BatchResults : \E responseMessage \in ResponseMessages :
             PostBatch(confirmation, script, results, responseMessage)

FunctionsSpec == Init /\ [][FunctionsNext]_vars

\* Invocations of handleLlmQuery in flight in the main process.
InvocationsInFlight == pendingQueries + (IF testCall = "in_flight" THEN 1 ELSE 0)

\* ================================================================ properties
InSeq(x, seq) == \E i \in 1..Len(seq) : seq[i] = x

IsTool(m) == m.role = "tool"
IsAssistant(m) == m.role = "assistant"

\* The assistant message nearest before position k of the Conversation (0: none).
NearestAssistant(k) ==
    IF \E j \in 1..(k - 1) : IsAssistant(messages[j])
    THEN CHOOSE j \in 1..(k - 1) :
            /\ IsAssistant(messages[j])
            /\ \A l \in (j + 1)..(k - 1) : ~IsAssistant(messages[l])
    ELSE 0

\* A gated automation call whose script content is not empty.
GatedNonEmpty(call) ==
    /\ call.name = "executeAppleScript"
    /\ ~JSON_parse(call.arguments).threw
    /\ ~JSON_parse(call.arguments).value.isNull
    /\ Truthy(JSON_parse(call.arguments).value.scriptContent)

NewInvocation == pc \in {"idle", "done"} /\ pc' = "awaiting"

\* C1: a query never runs the automation script, whatever the script and the
\* oracle's answers: every script handed to osascript was handed to it by the
\* confirmed-execution entry point, and as long as that entry point has not
\* been called no script has run at all.
C1_QueryNeverRunsScript ==
    /\ \A i \in 1..Len(osascriptRuns) : osascriptRuns[i].by = "executeConfirmedAppleScript"
    /\ Len(osascriptRuns) <= execCalls

\* C1 witness: phase 1 of the gate asked for confirmation of a script, the
\* query returned, and only the confirmed execution that followed ran a script.
C1_Witness ==
    /\ pc = "done"
    /\ signalled.id # 0
    /\ outcome.type = "applescript_confirmation_required"
    /\ execCalls = 1
    /\ osascriptRuns = <<[script |-> signalled.script, by |-> "executeConfirmedAppleScript"]>>

\* C2: in a batch, no call placed after a gated automation call with a
\* non-empty script is ever invoked.
C2_NothingInvokedAfterGatedCall ==
    \A i, j \in 1..Len(toolCalls) :
        (i < j /\ GatedNonEmpty(toolCalls[i])) => ~InSeq(toolCalls[j].id, invoked)

\* C2 witness: a finished batch whose first call is the gated one and whose
\* second call names a real capability; only the first was invoked.
C2_Witness ==
    /\ pc = "done"
    /\ Len(toolCalls) = 2
    /\ GatedNonEmpty(toolCalls[1])
    /\ toolCalls[2].name = "readFileContent"
    /\ invoked = <<toolCalls[1].id>>

\* C3: once phase 1 has asked for confirmation of a call whose script S is a
\* string, the invocation is over, it returned
\* applescript_confirmation_required with scriptContent = S, and the
\* Conversation holds no tool message answering that call.
C3_ConfirmationOutcome ==
    (signalled.id # 0 /\ TypeOf(signalled.script) = "string") =>
        /\ pc = "done"
        /\ outcome = ConfirmationRequired(signalled.script)
        /\ \A k \in 1..Len(messages) :
              ~(IsTool(messages[k]) /\ messages[k].tool_call_id = signalled.id)

\* C3 witness: the second call of a batch is the gated one, after a call that
\* produced a result; the outcome carries that call's script.
C3_Witness ==
    /\ pc = "done"
    /\ Len(toolCalls) = 2
    /\ signalled.id = toolCalls[2].id
    /\ signalled.script = Str("S2")
    /\ Len(toolResultMessages) = 1
    /\ outcome.type = "applescript_confirmation_required"

\* C4: the oracle never sees an unconfirmed script's outcome.  Once phase 1 has
\* asked for confirmation, the invocation makes no further oracle request and
\* the Conversation never holds a tool message answering that call; and a
\* confirmed execution touches neither the Conversation nor the oracle.
C4_OracleNeverSeesScriptOutcome ==
    /\ [](signalled.id # 0 =>
            \A k \in 1..Len(messages) :
               ~(IsTool(messages[k]) /\ messages[k].tool_call_id = signalled.id))
    /\ [][(signalled.id # 0 /\ ~NewInvocation) => oracleRequests' = oracleRequests]_vars
    /\ [][execCalls' # execCalls /\ ~NewInvocation =>
            /\ messages' = messages
            /\ oracleRequests' = oracleRequests
            /\ pc' = pc]_vars

\* C4 witness: a confirmation interrupt on a later turn, followed by the
\* confirmed execution.
C4_Witness ==
    /\ signalled.id # 0
    /\ oracleRequests >= 2
    /\ execCalls = 1
    /\ Len(osascriptRuns) = 1

\* C5: every tool message answers a call id listed by the nearest assistant
\* message before it.
C5_ReferentialIntegrity ==
    \A k \in 1..Len(messages) :
        IsTool(messages[k]) =>
            /\ NearestAssistant(k) # 0
            /\ InSeq(messages[k].tool_call_id, messages[NearestAssistant(k)].tool_calls)

\* C5 witness: the Conversation holds the folded results of two turns, the
\* second a batch of two.
C5_Witness ==
    /\ Len(messages) >= 7
    /\ IsTool(messages[4])
    /\ IsTool(messages[6])
    /\ IsTool(messages[7])

\* Position of a call id in the tool-call list of assistant message j.
CallPosition(j, id) == CHOOSE c \in 1..Len(messages[j].tool_calls) : messages[j].tool_calls[c] = id

\* C6: the tool messages folded for a batch come in the order of the call ids
\* of the assistant message that issued them.
C6_ResultsInCallOrder ==
    \A k, l \in 1..Len(messages) :
        (/\ k < l
         /\ IsTool(messages[k])
         /\ IsTool(messages[l])
         /\ NearestAssistant(k) = NearestAssistant(l)
         /\ NearestAssistant(k) # 0
         /\ InSeq(messages[k].tool_call_id, messages[NearestAssistant(k)].tool_calls)
         /\ InSeq(messages[l].tool_call_id, messages[NearestAssistant(k)].tool_calls))
        => CallPosition(NearestAssistant(k), messages[k].tool_call_id)
             < CallPosition(NearestAssistant(k), messages[l].tool_call_id)

\* C6 witness: a batch of two calls was folded as two tool messages.
C6_Witness ==
    \E j \in 1..Len(messages) :
        /\ IsAssistant(messages[j])
        /\ Len(messages[j].tool_calls) = 2
        /\ Len(messages) >= j + 2
        /\ IsTool(messages[j + 1])
        /\ IsTool(messages[j + 2])

\* The last assistant message of the Conversation.
LastAssistant ==
    messages[CHOOSE j \in 1..Len(messages) :
                /\ IsAssistant(messages[j])
                /\ \A l \in (j + 1)..Len(messages) : ~IsAssistant(messages[l])]

\* C7 as stated, on the invocations in which nothing threw: the invocation
\* ends in the max-turns state exactly when the oracle asked for tool calls on
\* maxTurns consecutive turns without ever answering in plain text.
C7_MaxTurnsIffToolCallsEveryTurn ==
    (pc = "done" /\ exit # "catch") => (exit = "max_turns" <=> toolTurns = maxTurns)

\* C7 amended: the invocation ends in the max-turns state exactly when the
\* oracle asked for tool calls on maxTurns consecutive turns and every one of
\* those batches was dispatched to its end and folded (no confirmation
\* interrupt, no exception).
C7_MaxTurnsIffEveryBatchFolded ==
    pc = "done" =>
        (exit = "max_turns" <=> (toolTurns = maxTurns /\ batchesFolded = maxTurns))

\* C7 witness: the turn budget was used up.
C7_Witness ==
    /\ pc = "done"
    /\ exit = "max_turns"
    /\ oracleRequests = maxTurns

\* C8: when the turn budget is used up, the invocation returns the text of the
\* last assistant message if it carried text, and an error only if it carried
\* none.
C8_MaxTurnsReturnsLastAssistantText ==
    (pc = "done" /\ exit = "max_turns") =>
        IF Truthy(LastAssistant.content)
        THEN outcome = TextResponse(LastAssistant.content)
        ELSE outcome.type = "error"

OutcomeTypes ==
    {"text_response", "tool_executed", "applescript_confirmation_required", "error"}

\* C9: a finished invocation returned exactly one outcome, of one of the four
\* types, and let no exception reach its caller; an unfinished one returned
\* nothing.
C9_ExactlyOneOutcome ==
    IF pc = "done"
    THEN returns = 1 /\ ~propagated /\ outcome.type \in OutcomeTypes
    ELSE returns = 0 /\ ~propagated /\ outcome = NoOutcome

\* C9 witness: an exception thrown while a batch was dispatched (arguments that
\* are not JSON) ended the invocation with an outcome.
C9_Witness ==
    /\ pc = "done"
    /\ exit = "catch"
    /\ lastResponse.kind = "message"
    /\ lastResponse.calls > 0

\* C10: when the oracle's response carries no tool calls, the assistant
\* message is appended and the invocation returns text_response with its
\* content, or with empty text when the content is null or empty.
C10_TextResponseWithoutToolCalls ==
    (lastResponse.kind = "message" /\ lastResponse.calls = 0) =>
        /\ pc = "done"
        /\ messages[Len(messages)] = Message("assistant", lastResponse.content, <<>>, 0)
        /\ outcome = TextResponse(IF Truthy(lastResponse.content)
                                  THEN lastResponse.content ELSE Str(""))

\* C10 witness: after a turn of tool calls the oracle answered with null
\* content and no tool calls.
C10_Witness ==
    /\ pc = "done"
    /\ lastResponse = [kind |-> "message", content |-> Null, calls |-> 0]
    /\ turn >= 1
    /\ outcome.type = "text_response"

\* The calls of the current batch the for...of loop has gone through.
Processed(i) == i < idx \/ (pc = "done" /\ i = idx)

\* The tool messages gathered for call id in the current batch.
ResultsFor(id) ==
    {k \in 1..Len(toolResultMessages) : toolResultMessages[k].tool_call_id = id}

\* C11: when the oracle call throws, the invocation is over at once with the
\* error outcome carrying the failure's message, and until a new invocation
\* starts no further oracle request is made, no capability is invoked and the
\* Conversation does not change.
C11_OracleFailureEndsInvocation ==
    /\ [](lastResponse.kind = "threw" =>
            /\ pc = "done"
            /\ exit = "catch"
            /\ outcome = ErrorOutcome("Request failed"))
    /\ [][(lastResponse.kind = "threw" /\ ~NewInvocation) =>
            /\ oracleRequests' = oracleRequests
            /\ invoked' = invoked
            /\ messages' = messages]_vars

\* C11 witness: the oracle call failed on a later turn, after a batch was
\* dispatched and folded.
C11_Witness ==
    /\ lastResponse.kind = "threw"
    /\ turn >= 1
    /\ oracleRequests = turn + 1
    /\ outcome.type = "error"

\* A call whose name is not one of the capabilities (its arguments parse).
UnknownCapability(call) ==
    /\ call.name \notin FunctionNames
    /\ ~JSON_parse(call.arguments).threw

\* C12: a tool call naming an unknown capability gets the structured
\* "Unknown tool function" error as its tool result, and the invocation does
\* not stop at that call: the batch goes on with the next call.
C12_UnknownCapabilityYieldsError ==
    \A i \in 1..Len(toolCalls) :
        (Processed(i) /\ UnknownCapability(toolCalls[i])) =>
            /\ InSeq(ToolMessage(toolCalls[i].id, UnknownToolText(toolCalls[i].name)),
                     toolResultMessages)
            /\ (pc = "done" /\ i = idx) => (i = Len(toolCalls) /\ exit = "max_turns")

\* A gated automation call whose script content is empty or absent.
GatedEmpty(call) ==
    /\ call.name = "executeAppleScript"
    /\ ~JSON_parse(call.arguments).threw
    /\ ~JSON_parse(call.arguments).value.isNull
    /\ ~Truthy(JSON_parse(call.arguments).value.scriptContent)

\* C13: a gated automation call with empty script content gets a tool-role
\* error message for its call id, raises no confirmation interrupt, and the
\* invocation does not stop at that call: the rest of the batch is processed.
C13_EmptyScriptIsToolError ==
    \A i \in 1..Len(toolCalls) :
        (Processed(i) /\ GatedEmpty(toolCalls[i])) =>
            /\ InSeq(ToolMessage(toolCalls[i].id,
                                 PreCheckErrorText("Empty script content provided.")),
                     toolResultMessages)
            /\ signalled.id # toolCalls[i].id
            /\ (pc = "done" /\ i = idx) => (i = Len(toolCalls) /\ exit = "max_turns")

\* C13 witness: the first call of a batch is the gated one with an empty
\* script, it was answered with the error, and the call after it was processed
\* (it is the one that asked for confirmation).
C13_Witness ==
    /\ pc = "done"
    /\ Len(toolCalls) = 2
    /\ GatedEmpty(toolCalls[1])
    /\ toolResultMessages =
          <<ToolMessage(toolCalls[1].id, PreCheckErrorText("Empty script content provided."))>>
    /\ signalled.id = toolCalls[2].id

\* A call of a capability other than the gated one (its arguments parse).
NonGatedCapability(call) ==
    /\ call.name \in FunctionNames \ {"executeAppleScript"}
    /\ ~JSON_parse(call.arguments).threw

\* C14: a call of a non-gated capability has the same control flow whether
\* the provider succeeds, returns an error payload or throws: the pass over it
\* always ends with exactly one tool message and goes on to the next call, the
\* invocation never stops at it, and when the batch is folded every call of the
\* batch is answered in the Conversation and the loop goes to the next oracle
\* turn (or has used up its turns).
C14_ProviderFailureLikeSuccess ==
    /\ [](\A i \in 1..Len(toolCalls) :
            (Processed(i) /\ NonGatedCapability(toolCalls[i])) =>
                /\ Cardinality(ResultsFor(toolCalls[i].id)) = 1
                /\ (pc = "done" /\ i = idx) => (i = Len(toolCalls) /\ exit = "max_turns"))
    /\ []((pc = "dispatching" /\ NonGatedCapability(toolCalls[idx])) =>
            \A ending \in ProviderEndings :
                /\ ProcessToolCall(toolCalls[idx], ending).act = "continue"
                /\ Len(ProcessToolCall(toolCalls[idx], ending).msgs) = 1)
    /\ [][batchesFolded' = batchesFolded + 1 =>
            /\ \A i \in 1..Len(toolCalls) :
                  \E k \in (Len(messages) + 1)..Len(messages') :
                     /\ IsTool(messages'[k])
                     /\ messages'[k].tool_call_id = toolCalls[i].id
            /\ (pc' = "awaiting" \/ exit' = "max_turns")]_vars

\* C14 witness: on a later turn the first call of a batch threw inside its
\* capability, its error was recorded as a tool message and the loop stands at
\* the second call.
C14_Witness ==
    /\ pc = "dispatching"
    /\ turn >= 1
    /\ idx = 2
    /\ toolCalls[1].name = "openPath"
    /\ toolResultMessages =
          <<ToolMessage(toolCalls[1].id,
                        ToolErrorText("openPath",
                                      "Cannot read properties of null (reading 'filePath')"))>>

\* C15: a tool call whose arguments are not valid JSON gets a tool result and
\* is not fatal: the invocation does not end through the outer catch because
\* of it.
C15_MalformedArgumentsNeverFatal ==
    \A i \in 1..Len(toolCalls) :
        (Processed(i) /\ JSON_parse(toolCalls[i].arguments).threw) =>
            /\ exit # "catch"
            /\ ResultsFor(toolCalls[i].id) # {}

\* C16: a call of the confirmed-execution entry point with empty script
\* content returns {success: false, error: "Cannot execute empty script."} and
\* hands nothing to osascript.
C16_EmptyScriptNotExecuted ==
    [][(execCalls' = execCalls + 1 /\ ~Truthy(execScript')) =>
          /\ execResult' = ExecResult(FALSE, "", "Cannot execute empty script.")
          /\ osascriptRuns' = osascriptRuns]_vars

\* C16 witness: after a confirmation outcome the entry point was called with
\* the empty string.
C16_Witness ==
    /\ pc = "done"
    /\ outcome.type = "applescript_confirmation_required"
    /\ execCalls = 1
    /\ execScript = Str("")
    /\ execResult.error = "Cannot execute empty script."
    /\ osascriptRuns = <<>>

\* C17: Scenario B end to end.  A confirmation outcome carrying script S leaves
\* the adapter holding a pending request for S, and once the user has approved
\* that request the confirmed-execution entry point has been called with S and
\* has handed S to osascript or reported why it could not.
C17_ApprovalReachesEntryPoint ==
    /\ request.state = "pending" =>
          /\ lastResult = ConfirmationRequired(Str(request.script))
          /\ app.confirmationRequest = Request(request.script)
    /\ request.runs > 0 =>
          /\ execCalls > 0
          /\ execScript = Str(request.script)

\* C18: a ConfirmationRequest is pending exactly as long as neither the
\* approval nor the cancel has acted on it, and once it is gone exactly one of
\* the two has acted on it, exactly once.
C18_ExactlyOneTermination ==
    /\ request.runs + request.cancels <= 1
    /\ Truthy(app.confirmationRequest) <=> request.state = "pending"
    /\ request.state = "pending" => request.runs + request.cancels = 0
    /\ request.state = "terminated" => request.runs + request.cancels = 1

\* C18 witness: the user approved a pending request; it is gone and was never
\* cancelled.
C18_Witness ==
    /\ request.state = "terminated"
    /\ request.runs = 1
    /\ request.cancels = 0
    /\ app.confirmationRequest = Null

\* C19: the step that cancels a pending confirmation changes nothing in the
\* main process and starts no invocation; of the adapter's state it only clears
\* the pending request and sets the message; and a cancelled request was never
\* submitted for execution.
C19_CancelHasNoSideEffect ==
    /\ [][request.cancels' = request.cancels + 1 =>
            /\ mainVars' = mainVars
            /\ pendingQueries' = pendingQueries
            /\ testCall' = testCall
            /\ app' = [app EXCEPT !.confirmationRequest = Null,
                                  !.llmResponseText = Str("Script execution cancelled.")]]_vars
    /\ [](request.cancels > 0 => request.runs = 0)

\* C19 witness: a pending request for a script was cancelled while the user's
\* query was still in the input field.
C19_Witness ==
    /\ request.state = "terminated"
    /\ request.cancels = 1
    /\ request.script = "S1"
    /\ app.searchQuery # ""
    /\ app.llmResponseText = Str("Script execution cancelled.")
    /\ execCalls = 0

\* The adapter can submit an utterance only when no query of its own is in
\* flight, no confirmation is pending and no confirmed script is executing.
AdapterSubmitsOnlyWhenIdle ==
    (ENABLED HandleKeyDown) =>
        /\ pendingQueries = 0
        /\ ~app.isLoading
        /\ ~app.isConfirming
        /\ ~Truthy(app.confirmationRequest)

\* C20: at most one invocation of the loop is in flight at any time, and the
\* adapter can submit only when it is idle.
C20_StrictlySequential ==
    /\ InvocationsInFlight <= 1
    /\ AdapterSubmitsOnlyWhenIdle

C22_EveryOutcomeClassified ==
    lastResult # NoOutcome => branch = lastResult.type

\* C23: the first oracle request of every invocation holds exactly the system
\* prompt and the utterance the invocation was given, and the Conversation of
\* an invocation begins with these two messages and holds only messages that
\* this invocation pushed, whatever other invocation ran before it or runs
\* beside it.
C23_FreshConversation ==
    \A k \in Invocations :
        stage[k].pc # "not started" =>
            /\ firstRequest[k] = InitialMessages(utterance[k])
            /\ Len(ConversationOf(k)) >= 2
            /\ Plain(SubSeq(ConversationOf(k), 1, 2)) = InitialMessages(utterance[k])
            /\ \A i \in 1..Len(ConversationOf(k)) : ConversationOf(k)[i].by = k

\* C23 witness: the test call is two turns into its Conversation while the
\* handler of 'llm-query' has just made its first oracle request, for another
\* utterance.
C23_Witness ==
    /\ stage["test call"] = [pc |-> "awaiting", turn |-> 2]
    /\ Len(ConversationOf("test call")) = 6
    /\ stage["llm-query"] = [pc |-> "awaiting", turn |-> 0]
    /\ utterance["llm-query"] = "open a new tab in Chrome"
    /\ firstRequest["llm-query"] = InitialMessages("open a new tab in Chrome")
    /\ Len(ConversationOf("llm-query")) = 2

\* C24: Scenario C.  When readFileContent found that the path is not a regular
\* file, its result is the error "Path is not a file: <path>" and it did not
\* read the path; the loop folded that result into the Conversation as the
\* tool message answering the call; and when the oracle's next answer carries
\* no tool calls the invocation returns text_response with that answer's text.
C24_NotAFileFoldedThenText ==
    LET r == lastToolResult
    IN  (r.name = "readFileContent" /\ r.host # <<>>
         /\ r.host[1] = HostOp("stat", "/f", "directory")) =>
            /\ r.text = "{\"success\":false,\"error\":\"Path is not a file: /f\"}"
            /\ \A i \in 1..Len(r.host) : r.host[i].op # "readFile"
            /\ pc = "awaiting" =>
                  messages[Len(messages)] = Message("tool", ToolResultText, <<>>, r.id)
            /\ (pc = "done" /\ lastResponse.kind = "message" /\ lastResponse.calls = 0) =>
                  /\ messages[Len(messages) - 1] = Message("tool", ToolResultText, <<>>, r.id)
                  /\ exit = "no_tool_calls"
                  /\ outcome = TextResponse(IF Truthy(lastResponse.content)
                                            THEN lastResponse.content ELSE Str(""))

\* C24 witness: the not-a-file error was folded and the oracle then answered
\* with text only.
C24_Witness ==
    /\ pc = "done"
    /\ lastToolResult.name = "readFileContent"
    /\ lastToolResult.host = <<HostOp("stat", "/f", "directory")>>
    /\ lastToolResult.text = "{\"success\":false,\"error\":\"Path is not a file: /f\"}"
    /\ lastResponse = [kind |-> "message", content |-> Str("some text"), calls |-> 0]
    /\ outcome = TextResponse(Str("some text"))

\* C25: readFileContent on a regular file returns the file's content unchanged
\* when it is at most maxContentLength characters long, and otherwise its
\* first maxContentLength characters followed by the truncation marker; what
\* it returns is never longer than maxContentLength plus the marker.
C25_ContentTruncatedAtCeiling ==
    (applied.fn = "readFileContent" /\ applied.host.kind = "file") =>
        LET content == applied.host.content
            returned == applied.returned.value.content
        IN  /\ ~applied.returned.threw
            /\ applied.returned.value.success = TRUE
            /\ Len(content) <= maxContentLength => returned = content
            /\ Len(content) > maxContentLength =>
                  returned = SubSeq(content, 1, maxContentLength) \o TruncationMarker
            /\ Len(returned) <= maxContentLength + Len(TruncationMarker)

\* C25 witness: a file one character longer than the ceiling was read and came
\* back cut to the ceiling, with the marker.
C25_Witness ==
    /\ applied.fn = "readFileContent"
    /\ applied.host.kind = "file"
    /\ Len(applied.host.content) = maxContentLength + 1
    /\ Len(applied.returned.value.content) = maxContentLength + Len(TruncationMarker)
    /\ SubSeq(applied.returned.value.content, 1, maxContentLength)
          = SubSeq(applied.host.content, 1, maxContentLength)

\* The primary enumeration of listApplications failed: the pipeline could not
\* be run to a zero exit status, or its ls could not list /Applications.
PrimaryEnumerationFails(e) == e.exec = "rejects" \/ e.ls = "fails"

\* C26: listApplications never throws and never returns an error; when its
\* primary enumeration fails it tries the secondary one, and when both fail it
\* returns the empty list.
C26_ListApplicationsFallsBack ==
    applied.fn = "listApplications" =>
        LET e == applied.host
            r == applied.returned
        IN  /\ ~r.threw
            /\ r.response.error = Undefined
            /\ PrimaryEnumerationFails(e) =>
                  \E i \in 1..Len(r.host) : r.host[i].op = "readdir"
            /\ (PrimaryEnumerationFails(e) /\ e.readdir = "rejects") => r.value.items = <<>>

\* C27: openPath returns {success: true} only when the host opened the path,
\* and returns {success: false, error} with the host's message whenever the
\* host reports that it could not.
C27_OpenPathReportsHostFailure ==
    applied.fn = "openPath" =>
        LET o == applied.host
            value == applied.returned.value
        IN  /\ value.success = TRUE => (o.settles = "resolves" /\ o.message = "")
            /\ (o.settles = "rejects" \/ o.message # "") =>
                  (value.success = FALSE /\ value.error = Str(o.message))

\* C28: the confirmed-execution entry point never throws; it returns
\* {success: true, output} exactly when osascript ran the script to its end and
\* wrote nothing to its error stream; a completed run that wrote to the error
\* stream and a run that failed both return {success: false, error}, the first
\* with "Script execution failed: ..." and the second with another message.
C28_ExecutionOutcomesDistinguished ==
    applied.fn = "executeConfirmedAppleScript" =>
        LET scriptContent == applied.args[1]
            ending == applied.host
            returned == applied.returned
            ran == returned.ran # <<>>
        IN  /\ ~returned.threw
            /\ returned.result.success <=> (ran /\ ending = "clean")
            /\ returned.result.success => returned.result.output = "stdout"
            /\ ~returned.result.success => returned.result.error # ""
            /\ (ran /\ ending = "stderr") =>
                  returned.result.error = "Script execution failed: stderr"
            /\ (ran /\ ending \in {"failed", "failed_with_stderr"}) =>
                  returned.result.error \in {"Command failed: stderr", "spawn osascript ENOENT"}

\* C28 witness: osascript completed the script and wrote to its error stream;
\* the entry point reported it as a failed script execution.
C28_Witness ==
    /\ applied.fn = "executeConfirmedAppleScript"
    /\ applied.args = <<Str("S1")>>
    /\ applied.host = "stderr"
    /\ applied.returned.ran = <<Str("S1")>>
    /\ applied.returned.result = ExecResult(FALSE, "", "Script execution failed: stderr")

\* C29: an invocation makes at most maxTurns oracle requests, and as long as
\* its oracle requests and capability calls settle it comes to its end.
C29_TerminatesWithinTurns ==
    /\ [](oracleRequests <= maxTurns)
    /\ [](pc \in {"awaiting", "dispatching"} => <>(pc = "done"))

\* C29 witness: an invocation ended after it had made maxTurns oracle requests.
C29_Witness ==
    /\ pc = "done"
    /\ oracleRequests = maxTurns
    /\ turn = maxTurns
    /\ exit = "max_turns"

\* C30: within an invocation the Conversation only grows at its end: each step
\* that does not start a new invocation leaves the messages it found in place,
\* unchanged and in order, at the head of the sequence; and the sequence always
\* begins with the system message followed by the user's message.
C30_ConversationAppendOnly ==
    /\ [][~NewInvocation =>
            /\ Len(messages') >= Len(messages)
            /\ SubSeq(messages', 1, Len(messages)) = messages]_vars
    /\ [](pc # "idle" =>
            /\ Len(messages) >= 2
            /\ messages[1] = Message("system", SystemPrompt, <<>>, 0)
            /\ messages[2].role = "user"
            /\ messages[2].tool_calls = <<>>)

\* C30 witness: two batches of tool results have been folded into the
\* Conversation of one invocation, after the two responses that asked for them.
C30_Witness ==
    /\ pc # "idle"
    /\ batchesFolded = 2
    /\ Len(messages) >= 6
    /\ messages[1].role = "system"
    /\ messages[2].role = "user"
    /\ messages[3].role = "assistant"

\* The batch in hand is left by its last call, with no confirmation asked for
\* and no exception on its way to the outer catch.
BatchCompletes ==
    /\ pc = "dispatching"
    /\ pc' # "dispatching"
    /\ exit' \notin {"catch", "confirm_interrupt", "confirm_invalid"}

\* The tool messages among seq[from..to] that answer the call id.
Answers(seq, from, to, id) ==
    {k \in from..to : IsTool(seq[k]) /\ seq[k].tool_call_id = id}

ConfirmationInterrupted ==
    /\ pc = "done"
    /\ exit \in {"confirm_interrupt", "confirm_invalid"}

\* C32: when a batch is interrupted for confirmation, every capability called
\* before the gated call in that batch has been invoked, the results gathered
\* for them are not in the Conversation, and the Conversation ends with the
\* assistant message that issued the batch.
C32_InterruptDropsBatchResults ==
    ConfirmationInterrupted =>
        /\ signalled.id # 0
        /\ \E g \in 1..Len(toolCalls) :
              /\ toolCalls[g].id = signalled.id
              /\ \A i \in 1..(g - 1) :
                    FunctionToCall(toolCalls[i].name) => InSeq(toolCalls[i].id, invoked)
              /\ Len(toolResultMessages) = g - 1
        /\ IsAssistant(messages[Len(messages)])
        /\ messages[Len(messages)].tool_calls = [i \in 1..Len(toolCalls) |-> toolCalls[i].id]
        /\ \A k \in 1..Len(messages) : \A i \in 1..Len(toolCalls) :
              ~(IsTool(messages[k]) /\ messages[k].tool_call_id = toolCalls[i].id)

\* C32 witness: readFileContent was called for the first call of a batch and
\* its result gathered; the second call asked for confirmation, and the
\* Conversation ends with the assistant message of the batch.
C32_Witness ==
    /\ pc = "done"
    /\ exit = "confirm_interrupt"
    /\ Len(toolCalls) = 2
    /\ toolCalls[1].name = "readFileContent"
    /\ signalled.id = toolCalls[2].id
    /\ invoked = <<toolCalls[1].id, toolCalls[2].id>>
    /\ Len(toolResultMessages) = 1
    /\ IsAssistant(messages[Len(messages)])

\* The oracle has just answered with a message that carries tool calls.
AnsweredWithToolCalls ==
    /\ oracleRequests' = oracleRequests + 1
    /\ lastResponse'.kind = "message"
    /\ lastResponse'.calls > 0

\* C33: every oracle response that carries tool calls has its batch
\* dispatched, on the last turn as on the others; and when the invocation ends
\* on the max-turns return, maxTurns batches were dispatched and folded, the
\* capabilities named by the last batch were invoked, and the Conversation ends
\* with the tool messages that answer the last batch, one per call, which no
\* oracle request has carried.
C33_LastTurnBatchDispatched ==
    /\ [][AnsweredWithToolCalls =>
            /\ pc' = "dispatching"
            /\ Len(toolCalls') = lastResponse'.calls
            /\ idx' = 1]_vars
    /\ []((pc = "done" /\ exit = "max_turns") =>
            /\ oracleRequests = maxTurns
            /\ toolTurns = maxTurns
            /\ batchesFolded = maxTurns
            /\ Len(toolCalls) > 0
            /\ \A i \in 1..Len(toolCalls) :
                  /\ FunctionToCall(toolCalls[i].name) => InSeq(toolCalls[i].id, invoked)
                  /\ LET k == Len(messages) - Len(toolCalls) + i
                     IN  IsTool(messages[k]) /\ messages[k].tool_call_id = toolCalls[i].id
            /\ LET j == Len(messages) - Len(toolCalls)
               IN  /\ IsAssistant(messages[j])
                   /\ messages[j].tool_calls = [i \in 1..Len(toolCalls) |-> toolCalls[i].id])

\* C33 witness: the answer to the last oracle request asked for
\* readFileContent; it was called, its result is the last message of the
\* Conversation, and the invocation ended on the max-turns return.
C33_Witness ==
    /\ pc = "done"
    /\ exit = "max_turns"
    /\ oracleRequests = maxTurns
    /\ turn = maxTurns
    /\ Len(toolCalls) = 1
    /\ toolCalls[1].name = "readFileContent"
    /\ invoked = <<toolCalls[1].id>>
    /\ Len(messages) = 2 + 2 * maxTurns
    /\ IsTool(messages[Len(messages)])
    /\ messages[Len(messages)].tool_call_id = toolCalls[1].id

\* The scriptContent argument of a call.
ScriptOf(call) == JSON_parse(call.arguments).value.scriptContent

\* Position g holds the first call of the batch that is a gated call with a
\* truthy scriptContent, that is, the first one to pass the check of phase 1.
FirstPassingGatedCall(g) ==
    /\ g \in 1..Len(toolCalls)
    /\ GatedNonEmpty(toolCalls[g])
    /\ \A i \in 1..(g - 1) : ~GatedNonEmpty(toolCalls[i])

\* C34: the scriptContent of a confirmation outcome is a non-empty string, the
\* scriptContent argument of the first gated call of the batch that passed the
\* check of phase 1; and when that call's scriptContent is truthy but not a
\* string, the invocation returns the error outcome, not a confirmation.
C34_ConfirmedScriptIsFirstGatedScript ==
    /\ (pc = "done" /\ outcome.type = "applescript_confirmation_required") =>
          /\ TypeOf(outcome.scriptContent) = "string"
          /\ outcome.scriptContent # Str("")
          /\ \E g \in 1..Len(toolCalls) :
                /\ FirstPassingGatedCall(g)
                /\ outcome.scriptContent = ScriptOf(toolCalls[g])
    /\ \A g \in 1..Len(toolCalls) :
          (/\ pc = "done"
           /\ FirstPassingGatedCall(g)
           /\ signalled.id = toolCalls[g].id
           /\ TypeOf(ScriptOf(toolCalls[g])) # "string") =>
              /\ outcome = ErrorOutcome("Internal error: Invalid script content for confirmation.")
              /\ exit = "confirm_invalid"

\* C34 witness: the first call of the batch is a gated call with an empty
\* script, which phase 1 refused; the second is a gated call with the script
\* S2, and the confirmation outcome carries S2.
C34_Witness ==
    /\ pc = "done"
    /\ Len(toolCalls) = 2
    /\ toolCalls[1].name = "executeAppleScript"
    /\ toolCalls[1].arguments = ArgsEmptyScript
    /\ toolCalls[2].name = "executeAppleScript"
    /\ ScriptOf(toolCalls[2]) = Str("S2")
    /\ FirstPassingGatedCall(2)
    /\ outcome = ConfirmationRequired(Str("S2"))

\* The user's approval acts on the pending request.
Approval == request'.runs = request.runs + 1

\* C35: the script on the banner is the scriptContent of the confirmation
\* outcome received last; as long as the banner stays up no step changes it;
\* and the step of the user's approval submits that very script to the
\* confirmed-execution entry point.
C35_ApprovedScriptIsDisplayedScript ==
    /\ [](BannerShown(app) =>
            /\ lastResult.type = "applescript_confirmation_required"
            /\ app.confirmationRequest = Request(lastResult.scriptContent.v))
    /\ [][(BannerShown(app) /\ BannerShown(app')) =>
            app'.confirmationRequest = app.confirmationRequest]_vars
    /\ [][Approval =>
            /\ BannerShown(app)
            /\ execCalls' = execCalls + 1
            /\ execScript' = Str(app.confirmationRequest.v)
            /\ execScript' = lastResult.scriptContent]_vars

\* The promise of llmQuery that the adapter awaited has just settled.
QueryCompleted == pendingQueries' = pendingQueries - 1

\* C36: the adapter comes back to idle.  The step in which a query completes,
\* with an outcome or with a rejection, clears the loading flag; the step of an
\* approved execution leaves the confirming flag and the ConfirmationRequest
\* cleared; and whenever the input is disabled it is enabled again later,
\* unless the banner is up and waits for the user's decision.
C36_AdapterReturnsToIdle ==
    /\ [][QueryCompleted => ~app'.isLoading]_vars
    /\ [][Approval => (~app'.isConfirming /\ app'.confirmationRequest = Null)]_vars
    /\ [](app.isLoading => pendingQueries > 0)
    /\ [](InputDisabled(app) => <>(~InputDisabled(app) \/ BannerShown(app)))

\* C36 witness: a query was rejected and an earlier request was approved; no
\* flag is set, no request is pending, and the input is enabled.
C36_Witness ==
    /\ request.runs = 1
    /\ pendingQueries = 0
    /\ app.llmResponseText = Str("IPC Error: Error invoking remote method 'llm-query'")
    /\ ~app.isLoading
    /\ ~app.isConfirming
    /\ app.confirmationRequest = Null
    /\ ~InputDisabled(app)

====
